---- MODULE Spec2Model ----
(***************************************************************************)
(* A model of Tern (dminor/tern): the unifier (src/src/unification.rs),    *)
(* the goal algebra and its lazy answer streams (src/src/logic.rs), the    *)
(* code generator (src/src/codegen.rs) and the stack virtual machine       *)
(* (src/src/vm.rs).                                                        *)
(***************************************************************************)
EXTENDS Integers, Sequences, FiniteSets, TLC

VARIABLES
    bindings,   \* unification.rs: the Substitutions<T> map handed to unify
    call,       \* the last unify call: its arguments, the map before it, its result
    resolved,   \* the last walk call: its argument and the term it returned
    goal,       \* logic.rs: the goal a client evaluates
    initial,    \* the substitutions the client hands to eval
    streams,    \* the iterators eval returned to the client, by handle
    yielded,    \* the substitutions each stream has yielded so far, in order
    pulls,      \* the number of next() calls made on each stream
    last,       \* the last next() call: the stream, its state before, the item
    next_id,    \* vm.rs: VirtualMachine.next_id
    interned,   \* VirtualMachine.interned
    allocated,  \* the intern calls made so far, in order: the id returned, the name
    stack,      \* VirtualMachine.stack
    callstack,  \* VirtualMachine.callstack
    env,        \* VirtualMachine.env
    ctx,        \* main.rs: the codegen::Context main keeps across eval calls
    status,     \* where eval is: generating failed, running, or how run ended
    source,     \* the source the current eval was given
    evals,      \* the number of eval calls so far
    tables,     \* the Tables Opcode::Next has pushed during this eval, in order
    built,      \* the last goal a binary opcode built, with the operands it found
    output,     \* what eval printed: the value it popped after run returned Ok
    trace       \* the opcodes run has dispatched during this eval, in order, each
                \* with the frame depth, the ip, the stack and the env it found

unifyVars == <<bindings, call, resolved>>
logicVars == <<goal, initial, streams, yielded, pulls, last>>
vmVars == <<next_id, interned, allocated, stack, callstack, env, ctx, status, source,
            evals, tables, built, output, trace>>
vars == <<bindings, call, resolved, goal, initial, streams, yielded, pulls, last,
          next_id, interned, allocated, stack, callstack, env, ctx, status, source,
          evals, tables, built, output, trace>>

-----------------------------------------------------------------------------
(* Bounds of the model.                                                    *)

\* The number of unify calls made on one substitution map.
MaxCalls == 2

\* The number of next() calls made on one stream.
MaxPulls == 5

\* The number of eval calls main makes on its VirtualMachine.
MaxEvals == 2

\* The atom and variable ids the terms are built from.
AtomIds == {1, 2}
VarIds == {1, 2}

-----------------------------------------------------------------------------
(* unification.rs: Term<T>                                                 *)

Atom(u) == [k |-> "Atom", id |-> u, args |-> << >>]
Variable(u) == [k |-> "Variable", id |-> u, args |-> << >>]
Tuple(u) == [k |-> "Tuple", id |-> 0, args |-> u]

\* Terms of the same variant compare equal whatever their payload.
TermEqVariant(x, y) == x.k = y.k

\* impl PartialEq for Term<T>: same variant and equal payload.
TermEq(x, y) ==
    /\ x.k = y.k
    /\ IF x.k = "Tuple" THEN x.args = y.args ELSE x.id = y.id

\* HashMap::new()
EmptySubst == << >>

InsertLost(b, var, t) == b

\* The map holds the new entry and nothing else.
InsertAlone(b, var, t) == [x \in {var} |-> t]

\* HashMap::insert: adds the key or replaces its value.
Insert(b, var, t) ==
    [x \in (DOMAIN b) \cup {var} |-> IF x = var THEN t ELSE b[x]]

\* One lookup: the term a bound variable is bound to, not resolved further.
walkOnce(x, b) ==
    IF x.k = "Variable" /\ x.id \in DOMAIN b THEN b[x.id] ELSE x

RECURSIVE walk(_, _)
walk(x, b) ==
    IF x.k = "Variable"
    THEN IF x.id \in DOMAIN b THEN walk(b[x.id], b) ELSE x
    ELSE x

\* The comparison of the Atom arm of unify, when the right side walks to a
\* term that is not a variable (unification.rs line 91).
AtomVsBound(left, right, x) == TermEq(right, x)

\* The same comparison in the Tuple arm (unification.rs line 123).
TupleVsBound(left, right, x) == TermEq(right, x)

RECURSIVE unify(_, _, _)
RECURSIVE unifyElements(_, _, _, _)

\* Every pair is unified under the bindings the call started with.
unifyElementsApart(u, v, i, b) ==
    [ok |-> \A j \in i..Len(u) : unify(u[j], v[j], b).ok, b |-> b]

\* The loop over u.iter().zip(v.iter()) of the Tuple/Tuple arm: stops at the
\* first pair that does not unify and keeps the bindings made so far.
unifyElements(u, v, i, b) ==
    IF i > Len(u)
    THEN [ok |-> TRUE, b |-> b]
    ELSE LET r == unify(u[i], v[i], b)
         IN  IF ~r.ok THEN [ok |-> FALSE, b |-> r.b]
             ELSE unifyElements(u, v, i + 1, r.b)

\* unify whose Variable arm binds the walked variable without comparing it
\* with the right side first.
unifyUnguarded(left, right, b) ==
    CASE left.k = "Atom" ->
            ( CASE right.k = "Atom" -> [ok |-> left.id = right.id, b |-> b]
                [] right.k = "Variable" ->
                    LET x == walk(right, b)
                    IN  IF x.k = "Variable"
                        THEN [ok |-> TRUE, b |-> Insert(b, x.id, left)]
                        ELSE [ok |-> AtomVsBound(left, right, x), b |-> b]
                [] right.k = "Tuple" -> [ok |-> FALSE, b |-> b] )
      [] left.k = "Variable" ->
            LET x == walk(left, b)
            IN  IF x.k = "Variable"
                THEN [ok |-> TRUE, b |-> Insert(b, x.id, right)]
                ELSE [ok |-> TermEq(right, x), b |-> b]
      [] left.k = "Tuple" ->
            ( CASE right.k = "Atom" -> [ok |-> FALSE, b |-> b]
                [] right.k = "Variable" ->
                    LET x == walk(right, b)
                    IN  IF x.k = "Variable"
                        THEN [ok |-> TRUE, b |-> Insert(b, x.id, left)]
                        ELSE [ok |-> TupleVsBound(left, right, x), b |-> b]
                [] right.k = "Tuple" ->
                    IF Len(left.args) # Len(right.args)
                    THEN [ok |-> FALSE, b |-> b]
                    ELSE unifyElements(left.args, right.args, 1, b) )

\* unify whose Variable arm binds the unbound variable without asking what
\* the right side resolves to.
unifyCyclic(left, right, b) ==
    CASE left.k = "Atom" ->
            ( CASE right.k = "Atom" -> [ok |-> left.id = right.id, b |-> b]
                [] right.k = "Variable" ->
                    LET x == walk(right, b)
                    IN  IF x.k = "Variable"
                        THEN [ok |-> TRUE, b |-> Insert(b, x.id, left)]
                        ELSE [ok |-> AtomVsBound(left, right, x), b |-> b]
                [] right.k = "Tuple" -> [ok |-> FALSE, b |-> b] )
      [] left.k = "Variable" ->
            LET x == walk(left, b)
            IN  IF TermEq(right, x)
                THEN [ok |-> TRUE, b |-> b]
                ELSE IF x.k = "Variable"
                     THEN [ok |-> TRUE, b |-> Insert(b, x.id, right)]
                     ELSE [ok |-> FALSE, b |-> b]
      [] left.k = "Tuple" ->
            ( CASE right.k = "Atom" -> [ok |-> FALSE, b |-> b]
                [] right.k = "Variable" ->
                    LET x == walk(right, b)
                    IN  IF x.k = "Variable"
                        THEN [ok |-> TRUE, b |-> Insert(b, x.id, left)]
                        ELSE [ok |-> TupleVsBound(left, right, x), b |-> b]
                [] right.k = "Tuple" ->
                    IF Len(left.args) # Len(right.args)
                    THEN [ok |-> FALSE, b |-> b]
                    ELSE unifyElements(left.args, right.args, 1, b) )

\* unify(left, right, bindings) -> bool, with the bindings it leaves behind.
unify(left, right, b) ==
    CASE left.k = "Atom" ->
            ( CASE right.k = "Atom" -> [ok |-> left.id = right.id, b |-> b]
                [] right.k = "Variable" ->
                    LET x == walk(right, b)
                    IN  IF x.k = "Variable"
                        THEN [ok |-> TRUE, b |-> Insert(b, x.id, left)]
                        ELSE [ok |-> AtomVsBound(left, right, x), b |-> b]
                [] right.k = "Tuple" -> [ok |-> FALSE, b |-> b] )
      [] left.k = "Variable" ->
            LET x == walk(left, b)
            IN  IF TermEq(right, x)
                THEN [ok |-> TRUE, b |-> b]
                ELSE IF x.k = "Variable"
                     THEN LET y == walk(right, b)
                          IN  IF ~TermEq(x, y)
                              THEN [ok |-> TRUE, b |-> Insert(b, x.id, right)]
                              ELSE [ok |-> TRUE, b |-> b]
                     ELSE [ok |-> FALSE, b |-> b]
      [] left.k = "Tuple" ->
            ( CASE right.k = "Atom" -> [ok |-> FALSE, b |-> b]
                [] right.k = "Variable" ->
                    LET x == walk(right, b)
                    IN  IF x.k = "Variable"
                        THEN [ok |-> TRUE, b |-> Insert(b, x.id, left)]
                        ELSE [ok |-> TupleVsBound(left, right, x), b |-> b]
                [] right.k = "Tuple" ->
                    IF Len(left.args) # Len(right.args)
                    THEN [ok |-> FALSE, b |-> b]
                    ELSE unifyElements(left.args, right.args, 1, b) )

-----------------------------------------------------------------------------
(* logic.rs: goals.  A goal is immutable; eval(substs) makes a stream.     *)

Succeed == [g |-> "Succeed"]
Fail == [g |-> "Fail"]
EqualsExpr(left, right) == [g |-> "Equals", left |-> left, right |-> right]
Disj2(left, right) == [g |-> "Disj2", left |-> left, right |-> right]
Conj2(left, right) == [g |-> "Conj2", left |-> left, right |-> right]

\* Some other implementor of the Goal trait, as the type parameters G1 and G2 of
\* Disj2 admit: its stream yields the given items, over and over when cyclic.
OtherGoal(items, cyclic) == [g |-> "Other", items |-> items, cyclic |-> cyclic]

\* Option<Substitutions<T>> and Option<I1>
None == [some |-> FALSE]
Some(v) == [some |-> TRUE, v |-> v]

(* logic.rs: the iterators.                                                *)

SucceedIterator(substs) == [it |-> "Succeed", substs |-> substs]
FailureIterator == [it |-> "Fail"]
EqualsExprIterator(forced, left, right, substs) ==
    [it |-> "Equals", forced |-> forced, left |-> left, right |-> right,
     substs |-> substs]
Disj2Iterator(left, right, interleave_left) ==
    [it |-> "Disj2", left |-> left, right |-> right,
     interleave_left |-> interleave_left]
Conj2Iterator(right, right_iterator, left_iterator) ==
    [it |-> "Conj2", right |-> right, right_iterator |-> right_iterator,
     left_iterator |-> left_iterator]
OtherIterator(items, pos, cyclic) ==
    [it |-> "Other", items |-> items, pos |-> pos, cyclic |-> cyclic]

\* What one call of Iterator::next returns, and the iterator it leaves.
Pulled(item, it) == [item |-> item, it |-> it]

RECURSIVE eval(_, _)

SucceedEval(g, substs) == SucceedIterator(Some(substs))

FailEval(g, substs) == FailureIterator

\* The forced flag kept with the goal instead of with each stream.
EqualsEvalShared(g, substs) ==
    EqualsExprIterator(\E h \in DOMAIN pulls : pulls[h] > 0, g.left, g.right, substs)

EqualsEval(g, substs) == EqualsExprIterator(FALSE, g.left, g.right, substs)

\* Both sides of the stream made from the left goal.
Disj2EvalLeftTwice(g, substs) ==
    Disj2Iterator(eval(g.left, substs), eval(g.left, substs), TRUE)

\* The stream starts with its right side.
Disj2EvalRightFirst(g, substs) ==
    Disj2Iterator(eval(g.left, substs), eval(g.right, substs), FALSE)

Disj2Eval(g, substs) ==
    Disj2Iterator(eval(g.left, substs), eval(g.right, substs), TRUE)

Conj2Eval(g, substs) == Conj2Iterator(g.right, None, eval(g.left, substs))

OtherEval(g, substs) == OtherIterator(g.items, 1, g.cyclic)

\* Goal::eval
eval(g, substs) ==
    CASE g.g = "Succeed" -> SucceedEval(g, substs)
      [] g.g = "Fail" -> FailEval(g, substs)
      [] g.g = "Equals" -> EqualsEval(g, substs)
      [] g.g = "Disj2" -> Disj2Eval(g, substs)
      [] g.g = "Conj2" -> Conj2Eval(g, substs)
      [] g.g = "Other" -> OtherEval(g, substs)

RECURSIVE next(_)
RECURSIVE Disj2Next(_)
RECURSIVE Conj2Next(_)

\* SucceedIterator::next
SucceedNext(self) ==
    IF self.substs.some
    THEN Pulled(self.substs, SucceedIterator(None))
    ELSE Pulled(None, self)

\* FailureIterator::next
FailNext(self) == Pulled(None, self)

\* The stream yields the substitutions it was given, not the unified ones.
EqualsNextUnextended(self) ==
    IF ~self.forced
    THEN LET unified == unify(self.left, self.right, self.substs)
         IN  IF unified.ok
             THEN Pulled(Some(self.substs),
                         EqualsExprIterator(TRUE, self.left, self.right, EmptySubst))
             ELSE Pulled(None,
                         EqualsExprIterator(TRUE, self.left, self.right, unified.b))
    ELSE Pulled(None, self)

\* A pull on the forced stream returns nothing and makes the stream new again.
EqualsNextRearmed(self) ==
    IF ~self.forced
    THEN LET unified == unify(self.left, self.right, self.substs)
         IN  IF unified.ok
             THEN Pulled(Some(unified.b),
                         EqualsExprIterator(TRUE, self.left, self.right, EmptySubst))
             ELSE Pulled(None,
                         EqualsExprIterator(TRUE, self.left, self.right, unified.b))
    ELSE Pulled(None, EqualsExprIterator(FALSE, self.left, self.right, self.substs))

\* EqualsExprIterator::next
EqualsNext(self) ==
    IF ~self.forced
    THEN LET unified == unify(self.left, self.right, self.substs)
         IN  IF unified.ok
             THEN Pulled(Some(unified.b),
                         EqualsExprIterator(TRUE, self.left, self.right, EmptySubst))
             ELSE Pulled(None,
                         EqualsExprIterator(TRUE, self.left, self.right, unified.b))
    ELSE Pulled(None, self)

\* The side tried first answers alone: or() in place of or_else() and the
\* other side's item dropped.
Disj2NextNoFallback(self) ==
    IF self.interleave_left
    THEN LET l == next(self.left)
         IN  Pulled(l.item, Disj2Iterator(l.it, self.right, FALSE))
    ELSE LET r == next(self.right)
         IN  Pulled(r.item, Disj2Iterator(self.left, r.it, TRUE))

\* interleave_left is never flipped: the left side is always tried first.
Disj2NextLeftFirst(self) ==
    LET l == next(self.left)
    IN  IF l.item.some
        THEN Pulled(l.item, Disj2Iterator(l.it, self.right, TRUE))
        ELSE LET r == next(self.right)
             IN  Pulled(r.item, Disj2Iterator(l.it, r.it, TRUE))

\* Disj2Iterator::next
Disj2Next(self) ==
    IF self.interleave_left
    THEN LET l == next(self.left)
         IN  IF l.item.some
             THEN Pulled(l.item, Disj2Iterator(l.it, self.right, FALSE))
             ELSE LET r == next(self.right)
                  IN  Pulled(r.item, Disj2Iterator(l.it, r.it, FALSE))
    ELSE LET r == next(self.right)
         IN  IF r.item.some
             THEN Pulled(r.item, Disj2Iterator(self.left, r.it, TRUE))
             ELSE LET l == next(self.left)
                  IN  Pulled(l.item, Disj2Iterator(l.it, r.it, TRUE))

\* The stream ends when the right stream of the first left answer ends.
Conj2NextFirstOnly(self) ==
    IF self.right_iterator.some
    THEN LET result == next(self.right_iterator.v)
         IN  IF ~result.item.some
             THEN Pulled(None, Conj2Iterator(self.right, Some(result.it),
                                             self.left_iterator))
             ELSE Pulled(result.item,
                         Conj2Iterator(self.right, Some(result.it), self.left_iterator))
    ELSE LET l == next(self.left_iterator)
         IN  IF l.item.some
             THEN Conj2Next(Conj2Iterator(self.right,
                                          Some(eval(self.right, l.item.v)), l.it))
             ELSE Pulled(None, Conj2Iterator(self.right, None, l.it))

\* Conj2Iterator::next
Conj2Next(self) ==
    IF self.right_iterator.some
    THEN LET result == next(self.right_iterator.v)
         IN  IF ~result.item.some
             THEN Conj2Next(Conj2Iterator(self.right, None, self.left_iterator))
             ELSE Pulled(result.item,
                         Conj2Iterator(self.right, Some(result.it), self.left_iterator))
    ELSE LET l == next(self.left_iterator)
         IN  IF l.item.some
             THEN Conj2Next(Conj2Iterator(self.right,
                                          Some(eval(self.right, l.item.v)), l.it))
             ELSE Pulled(None, Conj2Iterator(self.right, None, l.it))

\* The stream of some other goal.
OtherNext(self) ==
    IF self.pos > Len(self.items)
    THEN Pulled(None, self)
    ELSE Pulled(Some(self.items[self.pos]),
                OtherIterator(self.items,
                              IF self.cyclic /\ self.pos = Len(self.items)
                              THEN 1 ELSE self.pos + 1,
                              self.cyclic))

\* Iterator::next of a stream
next(self) ==
    CASE self.it = "Succeed" -> SucceedNext(self)
      [] self.it = "Fail" -> FailNext(self)
      [] self.it = "Equals" -> EqualsNext(self)
      [] self.it = "Disj2" -> Disj2Next(self)
      [] self.it = "Conj2" -> Conj2Next(self)
      [] self.it = "Other" -> OtherNext(self)

-----------------------------------------------------------------------------
(* parser.rs: the AST the code generator walks.                            *)

Ast(node, name, kids, body, offset) ==
    [node |-> node, name |-> name, kids |-> kids, body |-> body, offset |-> offset]

AstConj(nodes) == Ast("Conj", "", nodes, << >>, 0)
AstDisj(nodes) == Ast("Disj", "", nodes, << >>, 0)
AstEquals(left, right) == Ast("Equals", "", <<left, right>>, << >>, 0)
AstVar(declarations, body) == Ast("Var", "", declarations, <<body>>, 0)
AstAtom(s) == Ast("Atom", s, << >>, << >>, 0)
AstVariable(v) == Ast("Variable", v, << >>, << >>, 0)
AstFnCall(name, args, offset) == Ast("FnCall", name, args, << >>, offset)
AstProgram(statements) == Ast("Program", "", statements, << >>, 0)
AstTable(fields) == Ast("Table", "", fields, << >>, 0)
AstLetBinding(name, value) == Ast("LetBinding", name, << >>, <<value>>, 0)
AstBindingRef(name) == Ast("BindingRef", name, << >>, << >>, 0)
AstRelation(parameters, body) == Ast("Relation", "", parameters, <<body>>, 0)

(* vm.rs: Opcode                                                           *)

Op(name) == [op |-> name, arg |-> 0]
OpAtom(id) == [op |-> "Atom", arg |-> id]
OpVariable(id) == [op |-> "Variable", arg |-> id]
OpCallable(kind, parameters, instructions, ip) ==
    [op |-> "Callable", arg |-> 0, kind |-> kind, parameters |-> parameters,
     instructions |-> instructions, ip |-> ip]

(* codegen.rs: Context, and the state generate threads through the walk:   *)
(* the context, the interner of the VirtualMachine, the instruction buffer *)
(* and the SyntaxError, if any.                                            *)

\* Context::new
NewContext == << << >> >>

Max(S) == CHOOSE x \in S : \A y \in S : y <= x

\* Context::lookup: the innermost scope that binds s decides.
Lookup(cx, s) ==
    LET found == {i \in 1..Len(cx) : s \in DOMAIN cx[i]}
    IN  IF found = {} THEN None ELSE Some(cx[Max(found)][s])

\* Context::push
PushScope(cx) == Append(cx, << >>)

\* Context::pop
PopScope(cx) == SubSeq(cx, 1, Len(cx) - 1)

\* Context::insert
InsertName(cx, id, value) ==
    [cx EXCEPT ![Len(cx)] = Insert(@, value, id)]

GenState(cx, nid, names, instr) ==
    [ctx |-> cx, next_id |-> nid, interned |-> names, instr |-> instr,
     err |-> None, allocated |-> << >>]

\* The name goes under the id given out last.
InternAgain(st, s) ==
    [st EXCEPT !.interned = Insert(@, st.next_id, s),
               !.allocated = Append(@, [id |-> st.next_id, name |-> s])]

\* VirtualMachine::intern: always a new id.
Intern(st, s) ==
    [st EXCEPT !.next_id = @ + 1, !.interned = Insert(@, st.next_id + 1, s),
               !.allocated = Append(@, [id |-> st.next_id + 1, name |-> s])]

\* The opcode is pushed twice.
EmitTwice(st, opcode) == [st EXCEPT !.instr = Append(Append(@, opcode), opcode)]

Emit(st, opcode) == [st EXCEPT !.instr = Append(@, opcode)]

\* The new id is handed out but the context is not told.
ResolveUnrecorded(st, s) ==
    LET found == Lookup(st.ctx, s)
    IN  IF found.some
        THEN [id |-> found.v, st |-> st]
        ELSE LET st1 == Intern(st, s)
             IN  [id |-> st1.next_id, st |-> st1]

\* The id of name s: the one the context finds, or else a newly interned one
\* recorded in the innermost scope (generate, AST::Atom and AST::Variable).
Resolve(st, s) ==
    LET found == Lookup(st.ctx, s)
    IN  IF found.some
        THEN [id |-> found.v, st |-> st]
        ELSE LET st1 == Intern(st, s)
             IN  [id |-> st1.next_id,
                  st |-> [st1 EXCEPT !.ctx = InsertName(@, st1.next_id, s)]]

RECURSIVE generate(_, _)
RECURSIVE GenerateJoined(_, _, _, _)
RECURSIVE GenerateJoinedEach(_, _, _, _)
RECURSIVE GenerateEach(_, _, _)
RECURSIVE GenerateFields(_, _, _)
RECURSIVE Declare(_, _, _)
RECURSIVE InternParameters(_, _, _, _)
RECURSIVE InternParametersBackwards(_, _, _, _)

\* The combinator after every child, the first one too.
GenerateJoinedEach(nodes, i, opcode, st) ==
    IF i > Len(nodes) THEN st
    ELSE LET st1 == generate(nodes[i], st)
         IN  IF st1.err.some THEN st1
             ELSE GenerateJoinedEach(nodes, i + 1, opcode, Emit(st1, opcode))

\* The loop of AST::Conj and AST::Disj: each child, and after every child but
\* the first the combinator.
GenerateJoined(nodes, i, opcode, st) ==
    IF i > Len(nodes) THEN st
    ELSE LET st1 == generate(nodes[i], st)
         IN  IF st1.err.some THEN st1
             ELSE GenerateJoined(nodes, i + 1, opcode,
                                 IF i > 1 THEN Emit(st1, opcode) ELSE st1)

\* for node in nodes { generate(node)?; }
GenerateEach(nodes, i, st) ==
    IF i > Len(nodes) THEN st
    ELSE LET st1 == generate(nodes[i], st)
         IN  IF st1.err.some THEN st1 ELSE GenerateEach(nodes, i + 1, st1)

\* The loop of AST::Table: SetTable after every second field.
GenerateFields(fields, i, st) ==
    IF i > Len(fields) THEN st
    ELSE LET st1 == generate(fields[i], st)
         IN  IF st1.err.some THEN st1
             ELSE GenerateFields(fields, i + 1,
                                 IF i % 2 = 0 THEN Emit(st1, Op("SetTable")) ELSE st1)

\* The loop of AST::Var: every declared name gets a new id in the new scope.
Declare(declarations, i, st) ==
    IF i > Len(declarations) THEN st
    ELSE LET st1 == Intern(st, declarations[i].name)
         IN  Declare(declarations, i + 1,
                     [st1 EXCEPT !.ctx = InsertName(@, st1.next_id, declarations[i].name)])

\* The ids are collected last parameter first.
InternParametersBackwards(parameters, i, params, st) ==
    IF i > Len(parameters) THEN [params |-> params, st |-> st]
    ELSE LET st1 == Intern(st, parameters[i].name)
         IN  InternParametersBackwards(parameters, i + 1,
                                       <<st1.next_id>> \o params, st1)

\* The loop of AST::Relation: every parameter is interned; the context is not
\* told.
InternParameters(parameters, i, params, st) ==
    IF i > Len(parameters) THEN [params |-> params, st |-> st]
    ELSE LET st1 == Intern(st, parameters[i].name)
         IN  InternParameters(parameters, i + 1, Append(params, st1.next_id), st1)

\* codegen::generate
generate(ast, st) ==
    CASE ast.node = "Conj" -> GenerateJoined(ast.kids, 1, Op("Conj2"), st)
      [] ast.node = "Disj" -> GenerateJoined(ast.kids, 1, Op("Disj2"), st)
      [] ast.node = "Equals" ->
            LET st1 == generate(ast.kids[1], st)
            IN  IF st1.err.some THEN st1
                ELSE LET st2 == generate(ast.kids[2], st1)
                     IN  IF st2.err.some THEN st2 ELSE Emit(st2, Op("Unify"))
      [] ast.node = "Var" ->
            LET st1 == Declare(ast.kids, 1, [st EXCEPT !.ctx = PushScope(@)])
                st2 == generate(ast.body[1], st1)
            IN  IF st2.err.some THEN st2
                ELSE [st2 EXCEPT !.ctx = PopScope(@)]
      [] ast.node = "Atom" ->
            LET r == Resolve(st, ast.name) IN Emit(r.st, OpAtom(r.id))
      [] ast.node = "Variable" ->
            LET r == Resolve(st, ast.name) IN Emit(r.st, OpVariable(r.id))
      [] ast.node = "FnCall" ->
            LET st1 == GenerateEach(ast.kids, 1, st)
            IN  IF st1.err.some THEN st1
                ELSE IF ast.name = "solve" THEN Emit(st1, Op("Solve"))
                ELSE IF ast.name = "next" THEN Emit(st1, Op("Next"))
                ELSE [st1 EXCEPT !.err =
                        Some([msg |-> "Undefined function", name |-> ast.name,
                              offset |-> ast.offset])]
      [] ast.node = "Program" -> GenerateEach(ast.kids, 1, st)
      [] ast.node = "Table" -> GenerateFields(ast.kids, 1, Emit(st, Op("NewTable")))
      [] ast.node = "LetBinding" ->
            LET r == Resolve(st, ast.name)
                st1 == generate(ast.body[1], Emit(r.st, OpVariable(r.id)))
            IN  IF st1.err.some THEN st1 ELSE Emit(st1, Op("SetEnv"))
      [] ast.node = "BindingRef" ->
            LET r == Resolve(st, ast.name)
            IN  Emit(Emit(r.st, OpVariable(r.id)), Op("GetEnv"))
      [] ast.node = "Relation" ->
            LET p == InternParameters(ast.kids, 1, << >>, st)
                inner == generate(ast.body[1], [p.st EXCEPT !.instr = << >>])
            IN  IF inner.err.some
                THEN [inner EXCEPT !.instr = st.instr]
                ELSE Emit([inner EXCEPT !.instr = st.instr],
                          OpCallable("Relation", p.params, inner.instr, 0))

-----------------------------------------------------------------------------
(* vm.rs: Value, and the VirtualMachine before main's first eval.          *)

Callable(kind, parameters, instructions, ip) ==
    [kind |-> kind, parameters |-> parameters, instructions |-> instructions,
     ip |-> ip]

TermV(t) == [type |-> "Term", v |-> t]
GoalV(g) == [type |-> "Goal", v |-> g]
StreamV(it) == [type |-> "Stream", v |-> it]
TableV(t) == [type |-> "Table", v |-> t]
NoneV == [type |-> "None", v |-> 0]
CallableV(c) == [type |-> "Callable", v |-> c]

Status(state, msg, ip) == [state |-> state, msg |-> msg, ip |-> ip]

NoSource == [ast |-> AstProgram(<< >>), tail |-> << >>, print |-> TRUE]

NoBuilt == [n |-> 0, op |-> "", first |-> NoneV, second |-> NoneV, goal |-> NoneV]

\* VirtualMachine::new and Context::new, as main creates them.
VmIdle ==
    /\ next_id = 0
    /\ interned = << >>
    /\ allocated = << >>
    /\ stack = << >>
    /\ callstack = << >>
    /\ env = << >>
    /\ ctx = NewContext
    /\ status = Status("idle", "", 0)
    /\ source = NoSource
    /\ evals = 0
    /\ tables = << >>
    /\ built = NoBuilt
    /\ output = None
    /\ trace = << >>

-----------------------------------------------------------------------------
(* The terms unify is called with.                                         *)

Atoms == {Atom(u) : u \in AtomIds}
Variables == {Variable(u) : u \in VarIds}
SimpleTerms == Atoms \cup Variables
Terms ==
    SimpleTerms \cup {Tuple(<< >>)} \cup {Tuple(<<x>>) : x \in Variables}
        \cup {Tuple(<<x, y>>) : x \in SimpleTerms, y \in SimpleTerms}
        \cup {Tuple(<<x, x, x>>) : x \in Variables}

NoCall == [n |-> 0, left |-> Atom(0), right |-> Atom(0), before |-> EmptySubst, ok |-> FALSE]

NoWalk == [some |-> FALSE, term |-> Atom(0), result |-> Atom(0)]

UnifyIdle ==
    /\ bindings = EmptySubst
    /\ call = NoCall
    /\ resolved = NoWalk

-----------------------------------------------------------------------------
(* A client of logic.rs (as its tests): it builds a goal, evaluates it to  *)
(* streams and calls next() on them.                                       *)

Handles == {1, 2}

NoStream == [it |-> "None"]
NoPull == [stream |-> 0, before |-> NoStream, item |-> None]

Bind(var, t) == Insert(EmptySubst, var, t)

EqualsGoals ==
    {EqualsExpr(Variable(v), Atom(u)) : v \in VarIds, u \in AtomIds}
        \cup {EqualsExpr(Atom(1), Atom(1)), EqualsExpr(Atom(1), Variable(1))}

LeafGoals == {Succeed, Fail} \cup EqualsGoals

\* A goal whose stream never ends.
EndlessGoal == OtherGoal(<<Bind(1, Atom(1)), Bind(1, Atom(2))>>, TRUE)

PairGoals ==
    {Disj2(l, r) : l \in LeafGoals \cup {EndlessGoal}, r \in LeafGoals \cup {EndlessGoal}}
        \cup {Conj2(l, r) : l \in LeafGoals, r \in LeafGoals}

\* Goals with several answers, to nest.
InnerGoals ==
    { Disj2(EqualsExpr(Variable(1), Atom(1)), EqualsExpr(Variable(1), Atom(2))),
      Disj2(EqualsExpr(Variable(2), Atom(1)), EqualsExpr(Variable(2), Atom(2))),
      Disj2(Fail, EqualsExpr(Variable(1), Atom(2))),
      Conj2(EqualsExpr(Variable(1), Atom(1)), EqualsExpr(Variable(2), Atom(2))),
      Conj2(EqualsExpr(Variable(1), Atom(2)), EqualsExpr(Variable(1), Atom(1))),
      EqualsExpr(Variable(1), Atom(1)),
      Fail }

NestedGoals ==
    {Disj2(l, r) : l \in InnerGoals, r \in InnerGoals}
        \cup {Conj2(l, r) : l \in InnerGoals, r \in InnerGoals}

Goals == LeafGoals \cup PairGoals \cup NestedGoals

InitialSubsts == {EmptySubst, Bind(1, Atom(1)), Bind(2, Variable(1))}

LogicIdle ==
    /\ goal = Fail
    /\ initial = EmptySubst
    /\ streams = [h \in Handles |-> NoStream]
    /\ yielded = [h \in Handles |-> << >>]
    /\ pulls = [h \in Handles |-> 0]
    /\ last = NoPull

InitLogic ==
    /\ goal \in Goals
    /\ initial \in InitialSubsts
    /\ streams = [h \in Handles |-> NoStream]
    /\ yielded = [h \in Handles |-> << >>]
    /\ pulls = [h \in Handles |-> 0]
    /\ last = NoPull
    /\ UnifyIdle
    /\ VmIdle

\* let mut iter = goal.eval(&substs);
Eval(h) ==
    /\ streams[h] = NoStream
    /\ streams' = [streams EXCEPT ![h] = eval(goal, initial)]
    /\ UNCHANGED <<goal, initial, yielded, pulls, last>>

\* iter.next()
Next_(h) ==
    /\ streams[h] # NoStream
    /\ pulls[h] < MaxPulls
    /\ LET r == next(streams[h])
       IN  /\ streams' = [streams EXCEPT ![h] = r.it]
           /\ yielded' = [yielded EXCEPT ![h] =
                            IF r.item.some THEN Append(@, r.item.v) ELSE @]
           /\ last' = [stream |-> h, before |-> streams[h], item |-> r.item]
    /\ pulls' = [pulls EXCEPT ![h] = @ + 1]
    /\ UNCHANGED <<goal, initial>>

EvalStream ==
    /\ \E h \in Handles : Eval(h)
    /\ UNCHANGED <<unifyVars, vmVars>>

PullStream ==
    /\ \E h \in Handles : Next_(h)
    /\ UNCHANGED <<unifyVars, vmVars>>

NextLogic == EvalStream \/ PullStream

SpecLogic == InitLogic /\ [][NextLogic]_vars

-----------------------------------------------------------------------------
(* The callers of unify.                                                   *)

InitUnify ==
    /\ UnifyIdle
    /\ LogicIdle
    /\ VmIdle

\* A caller of unify (as tests::test_unify): one call on the shared map.
UnifyCall ==
    /\ call.n < MaxCalls
    /\ \E left \in Terms, right \in Terms :
          LET r == unify(left, right, bindings)
          IN  /\ bindings' = r.b
              /\ call' = [n |-> call.n + 1, left |-> left, right |-> right,
                          before |-> bindings, ok |-> r.ok]
    /\ resolved' = resolved

NextUnify == UnifyCall /\ UNCHANGED <<logicVars, vmVars>>

SpecUnify == InitUnify /\ [][NextUnify]_vars

-----------------------------------------------------------------------------
(* The callers of walk (as tests::test_walk): a map filled by insert, and  *)
(* walk called on a term.                                                  *)

WalkVarIds == {1, 2, 3}

\* The terms a map holds and walk is called on.
WalkTerms ==
    Atoms \cup {Variable(v) : v \in WalkVarIds} \cup {Tuple(<<Variable(1)>>)}

\* The term n lookups lead to.
RECURSIVE Follow(_, _, _)
Follow(t, b, n) ==
    IF n = 0 \/ t.k # "Variable" THEN t
    ELSE IF t.id \in DOMAIN b THEN Follow(b[t.id], b, n - 1) ELSE t

\* No chain of bindings comes back to a variable of the chain, so that walk
\* returns.
Terminates(b) ==
    \A v \in DOMAIN b :
       LET t == Follow(Variable(v), b, Cardinality(DOMAIN b))
       IN  ~(t.k = "Variable" /\ t.id \in DOMAIN b)

WalkSubsts ==
    {b \in UNION {[D -> WalkTerms] : D \in SUBSET WalkVarIds} : Terminates(b)}

InitWalk ==
    /\ bindings \in WalkSubsts
    /\ call = NoCall
    /\ resolved = NoWalk
    /\ LogicIdle
    /\ VmIdle

WalkCall ==
    /\ \E t \in WalkTerms :
          resolved' = [some |-> TRUE, term |-> t, result |-> walk(t, bindings)]
    /\ UNCHANGED <<bindings, call>>

NextWalk == WalkCall /\ UNCHANGED <<logicVars, vmVars>>

SpecWalk == InitWalk /\ [][NextWalk]_vars

-----------------------------------------------------------------------------
(* vm.rs: VirtualMachine::run, one action per opcode, and main.rs: eval.   *)

Top(stk) == stk[Len(stk)]
Pop(stk) == SubSeq(stk, 1, Len(stk) - 1)

Frame == Top(callstack)
CurOp == Frame.instructions[Frame.ip + 1]

\* The top of the loop of run has an opcode to dispatch.
Dispatching(name) ==
    /\ status.state = "running"
    /\ callstack # << >>
    /\ Frame.ip < Len(Frame.instructions)
    /\ CurOp.op = name

\* What the top of the loop found when it fetched the opcode.
Dispatched ==
    [depth |-> Len(callstack), frame |-> Frame, ip |-> Frame.ip, op |-> CurOp.op,
     stack |-> stack, env |-> env]

\* The bottom of the loop: the frame on top moves to its next instruction,
\* and returns implicitly at the end of its buffer.
PostDispatch(cs) ==
    LET ip1 == Top(cs).ip + 1
    IN  IF ip1 = Len(Top(cs).instructions)
        THEN Pop(cs)
        ELSE [cs EXCEPT ![Len(cs)].ip = ip1]

Effect(stk, err) == [stack |-> stk, err |-> err]

\* err!: run returns the RuntimeError; what was popped stays popped and the
\* callstack is left as it is.
Finish(r) ==
    /\ stack' = r.stack
    /\ IF r.err = ""
       THEN /\ callstack' = PostDispatch(callstack)
            /\ status' = status
       ELSE /\ callstack' = callstack
            /\ status' = Status("error", r.err, Frame.ip)

\* The first value popped named right, the second left.
OperandsSwapped(first, second) == [left |-> second, right |-> first]

\* buildgoal!: the first value popped is named left, the second right.
Operands(first, second) == [left |-> first, right |-> second]

\* logic::$goal::new(left, right)
NewGoal(name, left, right) ==
    CASE name = "Unify" -> EqualsExpr(left, right)
      [] name = "Conj2" -> Conj2(left, right)
      [] name = "Disj2" -> Disj2(left, right)

\* buildgoal!
BuildGoal(stk, type, name) ==
    IF stk = << >> THEN Effect(stk, "Stack underflow.")
    ELSE IF Top(stk).type # type THEN Effect(Pop(stk), "Expected term.")
    ELSE IF Pop(stk) = << >> THEN Effect(Pop(stk), "Stack underflow.")
    ELSE IF Top(Pop(stk)).type # type THEN Effect(Pop(Pop(stk)), "Expected term.")
    ELSE LET o == Operands(Top(stk).v, Top(Pop(stk)).v)
         IN  Effect(Append(Pop(Pop(stk)), GoalV(NewGoal(name, o.left, o.right))), "")

\* What a binary opcode found on the stack and what it built.
Record(r, name) ==
    IF r.err = "" THEN [n |-> built.n + 1, op |-> name, first |-> Top(stack),
                        second |-> Top(Pop(stack)), goal |-> Top(r.stack)]
    ELSE built

\* The Table Opcode::Next makes of the substitutions a stream yields.
TableOf(substs) ==
    [t \in {Variable(k) : k \in DOMAIN substs} |-> substs[t.id]]

OpcodeAtom ==
    /\ Dispatching("Atom")
    /\ Finish(Effect(Append(stack, TermV(Atom(CurOp.arg))), ""))
    /\ UNCHANGED <<next_id, interned, allocated, env, ctx, source, evals, tables, built, output>>
    /\ UNCHANGED <<unifyVars, logicVars>>
    /\ trace' = Append(trace, Dispatched)

OpcodeVariable ==
    /\ Dispatching("Variable")
    /\ Finish(Effect(Append(stack, TermV(Variable(CurOp.arg))), ""))
    /\ UNCHANGED <<next_id, interned, allocated, env, ctx, source, evals, tables, built, output>>
    /\ UNCHANGED <<unifyVars, logicVars>>
    /\ trace' = Append(trace, Dispatched)

OpcodeConj2 ==
    /\ Dispatching("Conj2")
    /\ LET r == BuildGoal(stack, "Goal", "Conj2")
       IN  Finish(r) /\ built' = Record(r, "Conj2")
    /\ UNCHANGED <<next_id, interned, allocated, env, ctx, source, evals, tables, output>>
    /\ UNCHANGED <<unifyVars, logicVars>>
    /\ trace' = Append(trace, Dispatched)

OpcodeDisj2 ==
    /\ Dispatching("Disj2")
    /\ LET r == BuildGoal(stack, "Goal", "Disj2")
       IN  Finish(r) /\ built' = Record(r, "Disj2")
    /\ UNCHANGED <<next_id, interned, allocated, env, ctx, source, evals, tables, output>>
    /\ UNCHANGED <<unifyVars, logicVars>>
    /\ trace' = Append(trace, Dispatched)

OpcodeUnify ==
    /\ Dispatching("Unify")
    /\ LET r == BuildGoal(stack, "Term", "Unify")
       IN  Finish(r) /\ built' = Record(r, "Unify")
    /\ UNCHANGED <<next_id, interned, allocated, env, ctx, source, evals, tables, output>>
    /\ UNCHANGED <<unifyVars, logicVars>>
    /\ trace' = Append(trace, Dispatched)

SolveEffect(stk) ==
    IF stk = << >> THEN Effect(stk, "Stack underflow.")
    ELSE IF Top(stk).type # "Goal" THEN Effect(Pop(stk), "TypeError: Expected goal.")
    ELSE Effect(Append(Pop(stk), StreamV(eval(Top(stk).v, EmptySubst))), "")

OpcodeSolve ==
    /\ Dispatching("Solve")
    /\ Finish(SolveEffect(stack))
    /\ UNCHANGED <<next_id, interned, allocated, env, ctx, source, evals, tables, built, output>>
    /\ UNCHANGED <<unifyVars, logicVars>>
    /\ trace' = Append(trace, Dispatched)

\* The stream is not pushed back.
NextEffectStreamGone(stk) ==
    IF stk = << >> THEN Effect(stk, "Stack underflow.")
    ELSE IF Top(stk).type # "Stream" THEN Effect(Pop(stk), "Unexpected value.")
    ELSE LET r == next(Top(stk).v)
         IN  IF r.item.some
             THEN Effect(Append(Pop(stk), TableV(TableOf(r.item.v))), "")
             ELSE Effect(Append(Pop(stk), NoneV), "")

NextEffect(stk) ==
    IF stk = << >> THEN Effect(stk, "Stack underflow.")
    ELSE IF Top(stk).type # "Stream" THEN Effect(Pop(stk), "Unexpected value.")
    ELSE LET r == next(Top(stk).v)
         IN  IF r.item.some
             THEN Effect(Pop(stk) \o <<StreamV(r.it), TableV(TableOf(r.item.v))>>, "")
             ELSE Effect(Append(Pop(stk), NoneV), "")

OpcodeNext ==
    /\ Dispatching("Next")
    /\ LET r == NextEffect(stack)
       IN  /\ Finish(r)
           /\ tables' = IF r.err = "" /\ Top(r.stack).type = "Table"
                        THEN Append(tables, Top(r.stack).v)
                        ELSE tables
    /\ UNCHANGED <<next_id, interned, allocated, env, ctx, source, evals, built, output>>
    /\ UNCHANGED <<unifyVars, logicVars>>
    /\ trace' = Append(trace, Dispatched)

PopEffect(stk) ==
    IF stk = << >> THEN Effect(stk, "Stack underflow.") ELSE Effect(Pop(stk), "")

OpcodePop ==
    /\ Dispatching("Pop")
    /\ Finish(PopEffect(stack))
    /\ UNCHANGED <<next_id, interned, allocated, env, ctx, source, evals, tables, built, output>>
    /\ UNCHANGED <<unifyVars, logicVars>>
    /\ trace' = Append(trace, Dispatched)

OpcodeNewTable ==
    /\ Dispatching("NewTable")
    /\ Finish(Effect(Append(stack, TableV(<< >>)), ""))
    /\ UNCHANGED <<next_id, interned, allocated, env, ctx, source, evals, tables, built, output>>
    /\ UNCHANGED <<unifyVars, logicVars>>
    /\ trace' = Append(trace, Dispatched)

\* A key that is already in the table keeps its value.
SetTableEffectKeepsFirst(stk) ==
    IF stk = << >> THEN Effect(stk, "Stack underflow.")
    ELSE IF Top(stk).type # "Term" THEN Effect(Pop(stk), "TypeError: Expected term.")
    ELSE IF Pop(stk) = << >> THEN Effect(Pop(stk), "Stack underflow.")
    ELSE IF Top(Pop(stk)).type # "Term"
         THEN Effect(Pop(Pop(stk)), "TypeError: Expected term.")
    ELSE LET value == Top(stk).v
             key == Top(Pop(stk)).v
             rest == Pop(Pop(stk))
         IN  IF rest = << >> THEN Effect(rest, "Stack underflow.")
             ELSE IF Top(rest).type # "Table" THEN Effect(rest, "Expected table.")
             ELSE IF key \in DOMAIN Top(rest).v THEN Effect(rest, "")
             ELSE Effect([rest EXCEPT ![Len(rest)] =
                             TableV(Insert(Top(rest).v, key, value))], "")

SetTableEffect(stk) ==
    IF stk = << >> THEN Effect(stk, "Stack underflow.")
    ELSE IF Top(stk).type # "Term" THEN Effect(Pop(stk), "TypeError: Expected term.")
    ELSE IF Pop(stk) = << >> THEN Effect(Pop(stk), "Stack underflow.")
    ELSE IF Top(Pop(stk)).type # "Term"
         THEN Effect(Pop(Pop(stk)), "TypeError: Expected term.")
    ELSE LET value == Top(stk).v
             key == Top(Pop(stk)).v
             rest == Pop(Pop(stk))
         IN  IF rest = << >> THEN Effect(rest, "Stack underflow.")
             ELSE IF Top(rest).type # "Table" THEN Effect(rest, "Expected table.")
             ELSE Effect([rest EXCEPT ![Len(rest)] =
                             TableV(Insert(Top(rest).v, key, value))], "")

OpcodeSetTable ==
    /\ Dispatching("SetTable")
    /\ Finish(SetTableEffect(stack))
    /\ UNCHANGED <<next_id, interned, allocated, env, ctx, source, evals, tables, built, output>>
    /\ UNCHANGED <<unifyVars, logicVars>>
    /\ trace' = Append(trace, Dispatched)

GetTableEffect(stk) ==
    IF stk = << >> THEN Effect(stk, "Stack underflow.")
    ELSE IF Top(stk).type # "Term" THEN Effect(Pop(stk), "TypeError: Expected Term.")
    ELSE LET key == Top(stk).v
             rest == Pop(stk)
         IN  IF rest = << >> THEN Effect(rest, "Stack underflow.")
             ELSE IF Top(rest).type # "Table"
                  THEN Effect(rest, "TypeError: Expected table.")
             ELSE IF key \in DOMAIN Top(rest).v
                  THEN Effect(Append(rest, TermV(Top(rest).v[key])), "")
             ELSE Effect(Append(rest, NoneV), "")

OpcodeGetTable ==
    /\ Dispatching("GetTable")
    /\ Finish(GetTableEffect(stack))
    /\ UNCHANGED <<next_id, interned, allocated, env, ctx, source, evals, tables, built, output>>
    /\ UNCHANGED <<unifyVars, logicVars>>
    /\ trace' = Append(trace, Dispatched)

\* The key SetEnv and GetEnv pop: a Variable term, or else an error.
KeyEffect(stk) ==
    IF stk = << >> THEN Effect(stk, "Stack underflow.")
    ELSE IF Top(stk).type # "Term" THEN Effect(Pop(stk), "TypeError: Expected variable.")
    ELSE IF Top(stk).v.k # "Variable"
         THEN Effect(Pop(stk), "TypeError: Expected variable.")
    ELSE Effect(Pop(stk), "")

SetEnvEffect(stk) ==
    IF stk = << >> THEN Effect(stk, "Stack underflow.") ELSE KeyEffect(Pop(stk))

OpcodeSetEnv ==
    /\ Dispatching("SetEnv")
    /\ LET r == SetEnvEffect(stack)
       IN  /\ Finish(r)
           /\ env' = IF r.err = ""
                     THEN Insert(env, Top(Pop(stack)).v.id, Top(stack))
                     ELSE env
    /\ UNCHANGED <<next_id, interned, allocated, ctx, source, evals, tables, built, output>>
    /\ UNCHANGED <<unifyVars, logicVars>>
    /\ trace' = Append(trace, Dispatched)

\* The value is pushed on top of the key.
GetEnvEffectKeyKept(stk) ==
    LET r == KeyEffect(stk)
    IN  IF r.err # "" THEN r
        ELSE IF Top(stk).v.id \notin DOMAIN env
             THEN Effect(r.stack, "Undefined variable.")
        ELSE Effect(Append(stk, env[Top(stk).v.id]), "")

\* A stored Stream is pushed like any other value.
GetEnvEffectAnyValue(stk) ==
    LET r == KeyEffect(stk)
    IN  IF r.err # "" THEN r
        ELSE IF Top(stk).v.id \notin DOMAIN env
             THEN Effect(r.stack, "Undefined variable.")
        ELSE Effect(Append(r.stack, env[Top(stk).v.id]), "")

GetEnvEffect(stk) ==
    LET r == KeyEffect(stk)
    IN  IF r.err # "" THEN r
        ELSE IF Top(stk).v.id \notin DOMAIN env
             THEN Effect(r.stack, "Undefined variable.")
        ELSE IF env[Top(stk).v.id].type = "Stream"
             THEN Effect(r.stack,
                         "Accessing streams through variables is not implemented.")
        ELSE Effect(Append(r.stack, env[Top(stk).v.id]), "")

OpcodeGetEnv ==
    /\ Dispatching("GetEnv")
    /\ Finish(GetEnvEffect(stack))
    /\ UNCHANGED <<next_id, interned, allocated, env, ctx, source, evals, tables, built, output>>
    /\ UNCHANGED <<unifyVars, logicVars>>
    /\ trace' = Append(trace, Dispatched)

\* Call pushes the frame and goes back to the top of the loop: the caller's
\* ip is not advanced.
OpcodeCall ==
    /\ Dispatching("Call")
    /\ IF stack = << >>
       THEN /\ status' = Status("error", "Stack underflow.", Frame.ip)
            /\ UNCHANGED <<stack, callstack>>
       ELSE /\ stack' = Pop(stack)
            /\ IF Top(stack).type = "Callable"
               THEN /\ callstack' = Append(callstack, Top(stack).v)
                    /\ status' = status
               ELSE /\ callstack' = callstack
                    /\ status' = Status("error", "TypeError: Expected callable.",
                                        Frame.ip)
    /\ UNCHANGED <<next_id, interned, allocated, env, ctx, source, evals, tables, built, output>>
    /\ UNCHANGED <<unifyVars, logicVars>>
    /\ trace' = Append(trace, Dispatched)

RECURSIVE BindParametersForward(_, _, _, _)

\* The parameters taken first to last while the arguments are popped last to
\* first.
BindParametersForward(parameters, i, result, stk) ==
    IF i = 0 THEN Effect(Append(stk, GoalV(result)), "")
    ELSE IF stk = << >> THEN Effect(stk, "Stack underflow.")
    ELSE IF Top(stk).type # "Term"
         THEN Effect(Pop(stk), "TypeError: Expected term as argument to relation.")
    ELSE BindParametersForward(parameters, i - 1,
            Conj2(EqualsExpr(Variable(parameters[Len(parameters) - i + 1]),
                             Top(stk).v), result),
            Pop(stk))

RECURSIVE BindParameters(_, _, _, _)

\* The loop of Ret over the parameters in reverse: one Conj2 of a Unify per
\* parameter, around the goal the relation left.
BindParameters(parameters, i, result, stk) ==
    IF i = 0 THEN Effect(Append(stk, GoalV(result)), "")
    ELSE IF stk = << >> THEN Effect(stk, "Stack underflow.")
    ELSE IF Top(stk).type # "Term"
         THEN Effect(Pop(stk), "TypeError: Expected term as argument to relation.")
    ELSE BindParameters(parameters, i - 1,
                        Conj2(EqualsExpr(Variable(parameters[i]), Top(stk).v), result),
                        Pop(stk))

RetEffect(frame, stk) ==
    IF frame.kind # "Relation" THEN Effect(stk, "")
    ELSE IF stk = << >> THEN Effect(stk, "Stack underflow.")
    ELSE IF Top(stk).type # "Goal"
         THEN Effect(Pop(stk), "TypeError: Unexpected type returned from relation.")
    ELSE BindParameters(frame.parameters, Len(frame.parameters), Top(stk).v, Pop(stk))

\* Ret pops the frame; the bottom of the loop then advances the frame under
\* it, and finds the unreachable! arm if there is none.
OpcodeRet ==
    /\ Dispatching("Ret")
    /\ LET r == RetEffect(Frame, stack)
       IN  /\ stack' = r.stack
           /\ IF r.err # ""
              THEN /\ callstack' = Pop(callstack)
                   /\ status' = Status("error", r.err, Frame.ip)
              ELSE IF Pop(callstack) = << >>
              THEN /\ callstack' = Pop(callstack)
                   /\ status' = Status("panic",
                                  "Empty callstack at bottom of interpreter loop.",
                                  Frame.ip)
              ELSE /\ callstack' = PostDispatch(Pop(callstack))
                   /\ status' = status
    /\ UNCHANGED <<next_id, interned, allocated, env, ctx, source, evals, tables, built, output>>
    /\ UNCHANGED <<unifyVars, logicVars>>
    /\ trace' = Append(trace, Dispatched)

OpcodeCallable ==
    /\ Dispatching("Callable")
    /\ Finish(Effect(Append(stack,
                CallableV(Callable(CurOp.kind, CurOp.parameters,
                                   CurOp.instructions, CurOp.ip))), ""))
    /\ UNCHANGED <<next_id, interned, allocated, env, ctx, source, evals, tables, built, output>>
    /\ UNCHANGED <<unifyVars, logicVars>>
    /\ trace' = Append(trace, Dispatched)

\* &instructions[*ip] with ip at or past the end of the buffer: the index
\* panics.
FetchPanic ==
    /\ status.state = "running"
    /\ callstack # << >>
    /\ Frame.ip >= Len(Frame.instructions)
    /\ status' = Status("panic", "index out of bounds", Frame.ip)
    /\ UNCHANGED <<next_id, interned, allocated, stack, callstack, env, ctx, source, evals,
                   tables, built, output>>
    /\ UNCHANGED <<unifyVars, logicVars>>
    /\ UNCHANGED trace

\* The callstack is empty at the top of the loop: run returns Ok(()), and
\* main's eval pops the value on top of the stack to print it.  A test
\* looks at the stack and leaves it.
RunOk ==
    /\ status.state = "running"
    /\ callstack = << >>
    /\ status' = Status("ok", "", 0)
    /\ IF source.print /\ stack # << >>
       THEN stack' = Pop(stack) /\ output' = Some(Top(stack))
       ELSE stack' = stack /\ output' = None
    /\ UNCHANGED <<next_id, interned, allocated, callstack, env, ctx, source, evals, tables,
                   built>>
    /\ UNCHANGED <<unifyVars, logicVars>>
    /\ UNCHANGED trace

\* eval without the two clear() calls: run pushes the frame of the new
\* program over what the run before left.
MainEvalResumes(src) ==
    /\ status.state \in {"idle", "ok", "error", "syntax"}
    /\ evals < MaxEvals
    /\ evals = 0 \/ (src.print /\ source.print)
    /\ LET st == generate(src.ast, GenState(ctx, next_id, interned, << >>))
       IN  /\ ctx' = st.ctx
           /\ next_id' = st.next_id
           /\ interned' = st.interned
           /\ allocated' = allocated \o st.allocated
           /\ stack' = stack
           /\ IF st.err.some
              THEN /\ callstack' = callstack
                   /\ status' = Status("syntax", st.err.v.msg, st.err.v.offset)
              ELSE /\ callstack' = Append(callstack,
                                          Callable("Function", << >>,
                                                   st.instr \o src.tail, 0))
                   /\ status' = Status("running", "", 0)
    /\ source' = src
    /\ evals' = evals + 1
    /\ tables' = << >>
    /\ output' = None
    /\ UNCHANGED <<env, built, unifyVars, logicVars>>
    /\ trace' = << >>

\* main.rs eval, up to the call of run: the stacks are cleared, the source is
\* compiled with main's Context, and run pushes the Function frame.  The
\* tests of codegen.rs and vm.rs do the same on a new VirtualMachine and
\* push the opcodes of src.tail after the generated ones.
MainEval(src) ==
    /\ status.state \in {"idle", "ok", "error", "syntax"}
    /\ evals < MaxEvals
    /\ evals = 0 \/ (src.print /\ source.print)
    /\ LET st == generate(src.ast, GenState(ctx, next_id, interned, << >>))
       IN  /\ ctx' = st.ctx
           /\ next_id' = st.next_id
           /\ interned' = st.interned
           /\ allocated' = allocated \o st.allocated
           /\ stack' = << >>
           /\ IF st.err.some
              THEN /\ callstack' = << >>
                   /\ status' = Status("syntax", st.err.v.msg, st.err.v.offset)
              ELSE /\ callstack' = <<Callable("Function", << >>,
                                              st.instr \o src.tail, 0)>>
                   /\ status' = Status("running", "", 0)
    /\ source' = src
    /\ evals' = evals + 1
    /\ tables' = << >>
    /\ output' = None
    /\ UNCHANGED <<env, built, unifyVars, logicVars>>
    /\ trace' = << >>

-----------------------------------------------------------------------------
(* The sources eval is given.                                              *)

Names == {"q", "r"}
AtomNames == {"olive", "oil"}

Tick(x, a) == AstEquals(AstVariable(x), AstAtom(a))

DisjOf(x, a, y, b) == AstDisj(<<Tick(x, a), Tick(y, b)>>)
ConjOf(x, a, y, b) == AstConj(<<Tick(x, a), Tick(y, b)>>)

GoalAsts ==
    {DisjOf(x, a, y, b) : x \in Names, a \in AtomNames, y \in Names, b \in AtomNames}
    \cup {ConjOf("q", a, y, "oil") : a \in AtomNames, y \in Names}
    \cup {AstEquals(AstAtom("olive"), AstAtom(a)) : a \in AtomNames}
    \cup {AstVar(<<AstVariable("q")>>, Tick("q", "olive")),
          AstDisj(<<AstEquals(AstAtom("olive"), AstAtom("olive")),
                    AstEquals(AstAtom("olive"), AstAtom("oil"))>>),
          AstDisj(<<Tick("q", "olive"), Tick("q", "oil"), Tick("r", "oil")>>),
          AstConj(<<Tick("q", "olive")>>),
          AstConj(<<Tick("q", "olive"), Tick("r", "oil"), Tick("q", "olive")>>),
          AstConj(<<DisjOf("q", "olive", "q", "oil"), Tick("r", "oil")>>),
          AstConj(<<Tick("q", "olive"), AstVar(<<AstVariable("q")>>, Tick("q", "oil")),
                    Tick("q", "olive")>>),
          AstConj(<<AstVar(<<AstVariable("q")>>, Tick("q", "olive")),
                    AstVar(<<AstVariable("q")>>, Tick("q", "oil"))>>),
          AstConj(<<AstVar(<<AstVariable("q")>>, Tick("q", "olive")),
                    Tick("r", "olive")>>)}

Solved(g) == AstFnCall("solve", <<g>>, 0)
Nexted(g) == AstFnCall("next", <<g>>, 0)

\* What main reads from a file or from stdin, parsed.
Statements ==
    {AstProgram(<< >>),
     AstProgram(<<Nexted(Solved(DisjOf("q", "olive", "q", "oil")))>>),
     AstProgram(<<Nexted(Solved(AstVar(<<AstVariable("q")>>, Tick("q", "olive"))))>>),
     AstProgram(<<Nexted(Solved(AstEquals(AstAtom("olive"), AstAtom("oil"))))>>),
     AstProgram(<<AstFnCall("first", <<AstAtom("olive")>>, 1)>>),
     AstProgram(<<AstVar(<<AstVariable("q")>>, AstFnCall("first", << >>, 9))>>),
     AstProgram(<<AstLetBinding("x", AstTable(<<AstVariable("q"), AstAtom("olive"),
                                                AstVariable("r"), AstAtom("oil")>>)),
                  AstBindingRef("x")>>),
     AstProgram(<<AstLetBinding("z", Solved(AstEquals(AstAtom("oil"), AstAtom("oil"))))>>),
     AstProgram(<<AstBindingRef("z")>>),
     AstProgram(<<AstRelation(<<AstVariable("q")>>, DisjOf("q", "olive", "q", "oil"))>>),
     AstProgram(<<AstRelation(<<AstVariable("q"), AstVariable("r")>>,
                              AstEquals(AstVariable("q"), AstVariable("r")))>>),
     AstProgram(<<AstRelation(<< >>, AstEquals(AstAtom("olive"), AstAtom("oil")))>>),
     AstProgram(<<AstVar(<<AstVariable("q")>>,
                         AstRelation(<<AstVariable("r")>>,
                                     AstEquals(AstVariable("q"), AstVariable("r"))))>>),
     AstProgram(<<AstLetBinding("x", AstTable(<<AstVariable("x"), AstAtom("olive"),
                                                AstVariable("r"), AstAtom("oil")>>)),
                  AstLetBinding("r", AstEquals(AstAtom("oil"), AstAtom("olive"))),
                  AstBindingRef("x"),
                  AstBindingRef("r")>>),
     AstProgram(<<Nexted(AstFnCall("solve", <<Tick("q", "olive"), Tick("r", "oil")>>, 5))>>),
     AstProgram(<<Nexted(AstFnCall("first", <<AstAtom("olive")>>, 6))>>),
     AstProgram(<<AstVar(<<AstVariable("q")>>,
                         AstVar(<<AstVariable("r")>>, AstFnCall("first", << >>, 20)))>>),
     AstProgram(<<AstBindingRef("x")>>)}

Tails ==
    {<<Op("Solve"), Op("Next")>>,
     <<Op("Solve"), Op("Next"), Op("Next")>>,
     <<Op("Solve"), Op("Next"), Op("Pop"), Op("Next")>>}

TermOps == {OpAtom(1), OpAtom(2), OpVariable(1), OpVariable(2)}

UnifyCode == {<<a, b, Op("Unify")>> : a \in TermOps, b \in TermOps}

GoalCode ==
    {<<OpVariable(1), OpAtom(1), Op("Unify")>>,
     <<OpVariable(1), OpAtom(2), Op("Unify")>>,
     <<OpVariable(2), OpAtom(2), Op("Unify")>>,
     <<OpAtom(1), OpAtom(2), Op("Unify")>>}

BinaryCode ==
    {g1 \o g2 \o <<Op(c)>> : g1 \in GoalCode, g2 \in GoalCode, c \in {"Conj2", "Disj2"}}

\* The bodies of the relations of tests::callable, with and without the Ret.
Bodies ==
    {<<OpAtom(1), OpAtom(1), Op("Unify"), Op("Ret")>>,
     <<OpVariable(1), OpAtom(2), Op("Unify"), Op("Ret")>>,
     <<OpVariable(1), OpAtom(2), Op("Unify")>>,
     <<OpAtom(1), Op("Ret")>>,
     <<Op("Ret")>>,
     << >>}

CallCode ==
    {<<OpCallable(kind, params, body, 0), Op("Call"), Op("Solve"), Op("Next")>> :
        kind \in {"Relation", "Function"}, params \in {<< >>}, body \in Bodies}
    \cup {<<OpAtom(a), OpCallable("Relation", <<2>>, body, 0), Op("Call"),
            Op("Solve"), Op("Next")>> : a \in {1}, body \in Bodies}
    \cup {<<Op("NewTable"), OpCallable("Relation", <<2>>, body, 0), Op("Call")>> :
            body \in Bodies}
    \cup {<<OpAtom(1), OpVariable(1), OpCallable("Relation", <<2, 3>>, body, 0),
            Op("Call"), Op("Solve"), Op("Next")>> : body \in Bodies}

\* The programs of tests::table and tests::env.
TableCode ==
    {<<Op("NewTable")>>,
     <<Op("NewTable"), OpVariable(1), OpAtom(2), Op("SetTable")>>,
     <<Op("NewTable"), OpVariable(1), OpAtom(2), Op("SetTable"), OpVariable(2),
       Op("GetTable")>>,
     <<Op("NewTable"), OpVariable(1), OpAtom(2), Op("SetTable"), OpVariable(1),
       Op("GetTable")>>,
     <<Op("NewTable"), OpVariable(1), OpAtom(2), Op("SetTable"), OpVariable(1),
       OpAtom(1), Op("SetTable"), OpVariable(1), Op("GetTable")>>,
     <<Op("NewTable"), OpVariable(1), OpAtom(2), Op("SetTable"), OpAtom(1),
       OpVariable(2), Op("SetTable"), OpAtom(1), Op("GetTable")>>}

EnvCode ==
    {<<OpVariable(1), OpAtom(2), Op("SetEnv")>>,
     <<OpVariable(1), OpAtom(2), Op("SetEnv"), OpVariable(1), Op("GetEnv")>>,
     <<OpVariable(1), OpAtom(2), OpAtom(2), Op("Unify"), Op("SetEnv"),
       OpVariable(1), Op("GetEnv")>>,
     <<OpVariable(1), OpAtom(2), OpAtom(2), Op("Unify"), Op("NewTable"),
       Op("Solve"), Op("SetEnv"), OpVariable(1), Op("GetEnv")>>,
     <<OpVariable(1), OpAtom(2), OpAtom(2), Op("Unify"), Op("Solve"), Op("SetEnv"),
       OpVariable(1), Op("GetEnv")>>,
     <<OpVariable(1), Op("NewTable"), Op("SetEnv"), OpVariable(1), Op("GetEnv")>>,
     <<OpAtom(1), OpAtom(2), Op("SetEnv")>>,
     <<OpVariable(2), Op("GetEnv")>>,
     <<OpVariable(1), OpAtom(1), OpAtom(2), Op("Unify"), Op("Solve"), Op("Next"),
       Op("SetEnv"), OpVariable(1), Op("GetEnv")>>,
     <<OpVariable(1), OpCallable("Relation", <<2>>, <<Op("Ret")>>, 0), Op("SetEnv"),
       OpVariable(1), Op("GetEnv")>>,
     <<OpVariable(1), OpAtom(2), Op("SetEnv"), OpVariable(1), Op("GetEnv"),
       OpVariable(1), Op("GetEnv")>>,
     <<OpVariable(1), OpAtom(2), Op("SetEnv"), OpVariable(1), Op("NewTable"),
       Op("SetEnv"), OpVariable(1), Op("GetEnv")>>,
     <<OpVariable(1), OpAtom(2), OpAtom(2), Op("Unify"), Op("Solve"), Op("SetEnv"),
       OpVariable(1), Op("GetEnv"), OpVariable(1), Op("GetEnv")>>}

\* Every opcode on a stack that is too short or holds the wrong type.
Operations ==
    {"Unify", "Conj2", "Disj2", "Solve", "Next", "Pop", "SetTable", "GetTable",
     "SetEnv", "GetEnv", "Call", "Ret"}

Prefixes ==
    {<< >>, <<OpAtom(1)>>, <<Op("NewTable")>>, <<OpAtom(1), OpAtom(2)>>,
     <<OpAtom(1), Op("NewTable")>>, <<Op("NewTable"), OpAtom(1)>>,
     <<OpAtom(1), OpAtom(1), OpAtom(2)>>}

ErrorCode == {pre \o <<Op(o)>> : pre \in Prefixes, o \in Operations}

Programs ==
    {c \o t : c \in UnifyCode \cup BinaryCode, t \in Tails}
    \cup CallCode \cup TableCode \cup EnvCode \cup ErrorCode

MainSource(ast) == [ast |-> ast, tail |-> << >>, print |-> TRUE]
TestSource(ast, tail) == [ast |-> ast, tail |-> tail, print |-> FALSE]

Sources ==
    {MainSource(a) : a \in Statements}
    \cup {TestSource(AstProgram(<<g>>), t) : g \in GoalAsts, t \in Tails}
    \cup {TestSource(AstProgram(<< >>), c) : c \in Programs}

InitVM ==
    /\ VmIdle
    /\ UnifyIdle
    /\ LogicIdle

Compile == \E src \in Sources : MainEval(src)

NextVM ==
    \/ Compile
    \/ OpcodeAtom
    \/ OpcodeVariable
    \/ OpcodeConj2
    \/ OpcodeDisj2
    \/ OpcodeUnify
    \/ OpcodeSolve
    \/ OpcodeNext
    \/ OpcodePop
    \/ OpcodeNewTable
    \/ OpcodeSetTable
    \/ OpcodeGetTable
    \/ OpcodeSetEnv
    \/ OpcodeGetEnv
    \/ OpcodeCall
    \/ OpcodeRet
    \/ OpcodeCallable
    \/ FetchPanic
    \/ RunOk

SpecVM == InitVM /\ [][NextVM]_vars

-----------------------------------------------------------------------------
(* Claims about unify and walk, under SpecUnify.                           *)

BothTuples(x, y) == x.k = "Tuple" /\ y.k = "Tuple"

WalkEqual(x, y, b) == TermEq(walk(x, b), walk(y, b))

\* The last call was made on the empty substitution and returned true.
FirstCallSucceeded == call.n >= 1 /\ call.before = EmptySubst /\ call.ok

\* C1 as stated: for all terms a, b and the empty substitution, when
\* unify(a, b, s) returns true, walk(a, s) and walk(b, s) are structurally equal.
C1_WalkEqualAfterUnify ==
    FirstCallSucceeded => WalkEqual(call.left, call.right, bindings)

\* C1 amended: walk does not descend into tuples, so after a successful unify on
\* the empty substitution walk(a, s) = walk(b, s) when a and b are not both
\* tuples; when both are tuples they have the same arity and the equality holds
\* for each pair of elements that are not both tuples.
C1_WalkEqualShallow ==
    FirstCallSucceeded =>
        IF BothTuples(call.left, call.right)
        THEN /\ Len(call.left.args) = Len(call.right.args)
             /\ \A i \in 1..Len(call.left.args) :
                    ~BothTuples(call.left.args[i], call.right.args[i])
                        => WalkEqual(call.left.args[i], call.right.args[i], bindings)
        ELSE WalkEqual(call.left, call.right, bindings)

C1_Witness ==
    /\ FirstCallSucceeded
    /\ BothTuples(call.left, call.right)
    /\ Len(call.left.args) = 2
    /\ call.left.args[1].k = "Variable"
    /\ call.right.args[1].k = "Atom"
    /\ DOMAIN bindings = {1, 2}

\* The last call had an atom on one side and, on the other, a variable that the
\* substitution resolved to an atom before the call.
AtomVsResolved(a, v) ==
    /\ call.n >= 1
    /\ a.k = "Atom"
    /\ v.k = "Variable"
    /\ walk(v, call.before).k = "Atom"

C2_Holds(a, v) ==
    /\ call.ok <=> (a.id = walk(v, call.before).id)
    /\ bindings = call.before

\* C2: when v resolves (directly or through a chain of variables) to Atom(w),
\* unify(Atom(u), Variable(v), s) and unify(Variable(v), Atom(u), s) both return
\* true iff u = w, and neither adds a binding.
C2_UnifyComparesWalkedValues ==
    /\ AtomVsResolved(call.left, call.right) => C2_Holds(call.left, call.right)
    /\ AtomVsResolved(call.right, call.left) => C2_Holds(call.right, call.left)

-----------------------------------------------------------------------------
(* Claims about the streams of logic.rs, under SpecLogic.                  *)

Min(a, b) == IF a < b THEN a ELSE b

\* What the first n calls of next() on a stream yield, in order.
RECURSIVE Take(_, _)
Take(it, n) ==
    IF n = 0 THEN << >>
    ELSE LET r == next(it)
         IN  (IF r.item.some THEN <<r.item.v>> ELSE << >>) \o Take(r.it, n - 1)

\* All the answers of a stream that ends.
RECURSIVE Answers(_)
Answers(it) ==
    LET r == next(it)
    IN  IF r.item.some THEN <<r.item.v>> \o Answers(r.it) ELSE << >>

\* The stream after n calls of next().
RECURSIVE Advance(_, _)
Advance(it, n) == IF n = 0 THEN it ELSE Advance(next(it).it, n - 1)

\* o holds exactly the items of l and of r, each in its own order.
RECURSIVE IsMerge(_, _, _)
IsMerge(o, l, r) ==
    IF o = << >>
    THEN l = << >> /\ r = << >>
    ELSE \/ l # << >> /\ Head(l) = Head(o) /\ IsMerge(Tail(o), Tail(l), r)
         \/ r # << >> /\ Head(r) = Head(o) /\ IsMerge(Tail(o), l, Tail(r))

IsPrefix(p, q) == Len(p) <= Len(q) /\ p = SubSeq(q, 1, Len(p))

SameItem(x, y) == x.some = y.some /\ (x.some => x.v = y.v)

Started(h) == streams[h] # NoStream

\* The last next() call was made on stream h.
LastOn(h) == last.stream = h

\* C3: a Disj2 stream alternates strictly, starting with the left: its k-th pull
\* tries the left side first when k is odd and the right side when k is even;
\* when the tried side has no answer the other side's next answer is returned in
\* the same pull; the pull returns nothing only when both sides have none; the
\* selected side flips after every pull.
C3_Disj2Alternates ==
    \A h \in Handles :
        LastOn(h) /\ last.before.it = "Disj2" =>
            LET d == last.before
                odd == pulls[h] % 2 = 1
                l == next(d.left)
                r == next(d.right)
                first == IF odd THEN l ELSE r
                second == IF odd THEN r ELSE l
            IN  /\ d.interleave_left = odd
                /\ streams[h].interleave_left = ~odd
                /\ SameItem(last.item, IF first.item.some THEN first.item ELSE second.item)
                /\ ~last.item.some <=> (~l.item.some /\ ~r.item.some)
                /\ IF first.item.some
                   THEN /\ streams[h].left = (IF odd THEN l.it ELSE d.left)
                        /\ streams[h].right = (IF odd THEN d.right ELSE r.it)
                   ELSE streams[h].left = l.it /\ streams[h].right = r.it

\* An even pull whose right side was empty and which returned the left side's answer.
C3_Witness ==
    \E h \in Handles :
        /\ LastOn(h)
        /\ last.before.it = "Disj2"
        /\ pulls[h] = 2
        /\ ~next(last.before.right).item.some
        /\ last.item.some

\* C4: Disj2 is fair: when a branch yields an n-th answer, the Disj2 stream has
\* yielded it after at most 2n pulls, also when the other branch never ends.
C4_Disj2Fair ==
    \A h \in Handles :
        Started(h) /\ goal.g = "Disj2" =>
            LET k == pulls[h]
                L == Take(eval(goal.left, initial), k)
                R == Take(eval(goal.right, initial), k)
            IN  \E i \in 0..Len(L), j \in 0..Len(R) :
                    /\ i >= Min(Len(L), k \div 2)
                    /\ j >= Min(Len(R), k \div 2)
                    /\ IsMerge(yielded[h], SubSeq(L, 1, i), SubSeq(R, 1, j))

\* The left branch never ends and the right branch's answer has been yielded.
C4_Witness ==
    \E h \in Handles :
        /\ goal.g = "Disj2"
        /\ goal.left = EndlessGoal
        /\ goal.right = EqualsExpr(Variable(2), Atom(1))
        /\ pulls[h] = 2
        /\ yielded[h] = <<Bind(1, Atom(1)), Bind(2, Atom(1))>>

\* A pull on stream h returned nothing, and it was the last pull made.
Exhausted(h) == LastOn(h) /\ ~last.item.some

FiniteDisj2 == goal.g = "Disj2" /\ goal.left # EndlessGoal /\ goal.right # EndlessGoal

\* C5: for finite branches, the answers of Disj2(g1, g2) under s are exactly the
\* answers of g1 under s together with those of g2 under s (none lost, duplicated
\* or invented), each branch's answers in their own order.
C5_Disj2IsUnion ==
    \A h \in Handles :
        Exhausted(h) /\ FiniteDisj2 =>
            IsMerge(yielded[h], Answers(eval(goal.left, initial)),
                    Answers(eval(goal.right, initial)))

C5_Witness ==
    \E h \in Handles :
        /\ Exhausted(h)
        /\ FiniteDisj2
        /\ Len(Answers(eval(goal.left, initial))) = 2
        /\ Len(Answers(eval(goal.right, initial))) = 2
        /\ Len(yielded[h]) = 4

\* The answers of goal g under each substitution of ss in turn.
RECURSIVE FlatMap(_, _)
FlatMap(ss, g) ==
    IF ss = << >> THEN << >>
    ELSE Answers(eval(g, Head(ss))) \o FlatMap(Tail(ss), g)

\* The number of substitutions of ss used up to the n-th item of FlatMap(ss, g).
RECURSIVE UsedFor(_, _, _)
UsedFor(ss, g, n) ==
    IF n <= 0 \/ ss = << >> THEN 0
    ELSE 1 + UsedFor(Tail(ss), g, n - Len(Answers(eval(g, Head(ss)))))

\* C6: a Conj2(g1, g2) stream is a flat-map: for each substitution s1 of g1 under
\* s, in order, it yields all substitutions of g2 under s1, in order, before it
\* pulls g1 again, and nothing else.
C6_Conj2IsFlatMap ==
    \A h \in Handles :
        Started(h) /\ goal.g = "Conj2" =>
            LET lefts == Answers(eval(goal.left, initial))
                expected == FlatMap(lefts, goal.right)
            IN  /\ Len(yielded[h]) = Min(pulls[h], Len(expected))
                /\ IsPrefix(yielded[h], expected)
                /\ LastOn(h) /\ last.item.some =>
                       streams[h].left_iterator =
                           Advance(eval(goal.left, initial),
                                   UsedFor(lefts, goal.right, Len(yielded[h])))

C6_Witness ==
    \E h \in Handles :
        /\ goal.g = "Conj2"
        /\ Len(Answers(eval(goal.left, initial))) = 2
        /\ Len(yielded[h]) = 4
        /\ Exhausted(h)

\* C7: the stream of Unify(l, r) under s yields at most one item: the first pull
\* yields s extended by the unification when l and r unify under s and nothing
\* when they do not; every later pull yields nothing.
C7_EqualsYieldsOnce ==
    \A h \in Handles :
        Started(h) /\ goal.g = "Equals" =>
            LET u == unify(goal.left, goal.right, initial)
            IN  yielded[h] = IF pulls[h] >= 1 /\ u.ok THEN <<u.b>> ELSE << >>

C7_Witness ==
    \E h \in Handles :
        /\ goal.g = "Equals"
        /\ initial # EmptySubst
        /\ pulls[h] >= 2
        /\ Len(yielded[h]) = 1
        /\ DOMAIN yielded[h][1] = {1, 2}

-----------------------------------------------------------------------------
(* Claims about the code generator and the virtual machine, under SpecVM.  *)

IdOf(s) == Lookup(ctx, s).v

\* The Table of the one answer of the goal x == 'a.
AnswerTable(x, a) == TableOf(Bind(IdOf(x), Atom(IdOf(a))))

\* The source being evaluated is disj { x == 'a | y == 'b }, solved by the
\* opcodes a test pushes or by next(solve(...)) in the source.
DisjSource(x, a, y, b) ==
    /\ status.state \in {"running", "ok", "error"}
    /\ source.ast \in {AstProgram(<<DisjOf(x, a, y, b)>>),
                       AstProgram(<<Nexted(Solved(DisjOf(x, a, y, b)))>>)}

\* C9: for the source disj { g1 | g2 } with one answer per branch, compiled and
\* followed by Solve and successive Next, the Tables Next pushes are first
\* the Table of g1's answer and then the Table of g2's answer.
C9_DisjAnswersInSourceOrder ==
    \A x \in Names, a \in AtomNames, y \in Names, b \in AtomNames :
        DisjSource(x, a, y, b) =>
            IsPrefix(tables, <<AnswerTable(x, a), AnswerTable(y, b)>>)

TermOf(opcode) ==
    IF opcode.op = "Atom" THEN Atom(opcode.arg) ELSE Variable(opcode.arg)

\* The answers of the goal that two term opcodes and Unify build.
AnswersOf(code) ==
    Answers(eval(EqualsExpr(TermOf(code[2]), TermOf(code[1])), EmptySubst))

\* A test runs the opcodes of g1, those of g2, Disj2 and then Solve and Next.
DisjProgram(g1, g2) ==
    /\ status.state \in {"running", "ok", "error"}
    /\ ~source.print
    /\ \E t \in Tails : source.tail = g1 \o g2 \o <<Op("Disj2")>> \o t

\* C11: for the instructions that push goal g1, then goal g2, then Disj2, Solve
\* and Next, where g1 and g2 have one answer each, the first Table Next pushes,
\* the one on top of the stack after the first Next, is the answer of g2.
C11_SecondPushedAnswersFirst ==
    \A g1 \in GoalCode, g2 \in GoalCode :
        (/\ DisjProgram(g1, g2)
         /\ Len(AnswersOf(g1)) = 1
         /\ Len(AnswersOf(g2)) = 1
         /\ status.state # "error") =>
            /\ Len(tables) >= 1 => tables[1] = TableOf(AnswersOf(g2)[1])
            /\ built.op = "Disj2" /\ callstack = << >> => Len(tables) >= 1
            /\ Len(tables) = 1 /\ Top(stack).type = "Table" =>
                   Top(stack).v = TableOf(AnswersOf(g2)[1])

\* tests::disj2: Variable(1) = Atom(1) pushed first, Variable(1) = Atom(2) second,
\* and the Table after Next binds Variable(1) to Atom(2).
C11_Witness ==
    /\ DisjProgram(<<OpVariable(1), OpAtom(1), Op("Unify")>>,
                   <<OpVariable(1), OpAtom(2), Op("Unify")>>)
    /\ Len(tables) = 1
    /\ Top(stack) = TableV(TableOf(Bind(1, Atom(2))))

\* The last opcode dispatched, with what it found.
Prev == trace[Len(trace)]

\* The last thing run did was to dispatch the opcode name: the stack is as that
\* opcode left it.
After(name) ==
    /\ trace # << >>
    /\ Prev.op = name
    /\ status.state \in {"running", "error", "panic"}

\* A test runs the given instructions.
TestProgram(code) ==
    /\ status.state \in {"running", "ok", "error", "panic"}
    /\ ~source.print
    /\ source.ast = AstProgram(<< >>)
    /\ source.tail = code

\* C12: Next pops a Stream and pulls it once.  When the stream yields a
\* substitution the same stream, with its remaining answers, is pushed back and
\* then a Table with one entry Variable(k) -> v per binding (depth + 1); when
\* the stream is exhausted only None is pushed and the stream is gone (depth
\* unchanged).  An equality of identical atoms gives an empty Table, one of
\* different atoms None.
C12_NextPullsOnce ==
    /\ After("Next") /\ Prev.stack # << >> /\ Top(Prev.stack).type = "Stream" =>
          LET before == Prev.stack
              pulled == next(Top(before).v)
          IN  /\ status.state = "running"
              /\ IF pulled.item.some
                 THEN /\ Len(stack) = Len(before) + 1
                      /\ SubSeq(stack, 1, Len(before) - 1) = Pop(before)
                      /\ stack[Len(before)] = StreamV(pulled.it)
                      /\ Answers(pulled.it) = Tail(Answers(Top(before).v))
                      /\ Top(stack).type = "Table"
                      /\ DOMAIN Top(stack).v = {Variable(k) : k \in DOMAIN pulled.item.v}
                      /\ \A k \in DOMAIN pulled.item.v :
                            Top(stack).v[Variable(k)] = pulled.item.v[k]
                 ELSE /\ Len(stack) = Len(before)
                      /\ stack = Append(Pop(before), NoneV)
    /\ \A a \in {1, 2}, b \in {1, 2} :
          (/\ TestProgram(<<OpAtom(a), OpAtom(b), Op("Unify"), Op("Solve"), Op("Next")>>)
           /\ After("Next")) =>
              Top(stack) = (IF a = b THEN TableV(<< >>) ELSE NoneV)

\* Next has pushed a Table with a binding over a stream that has more answers.
C12_Witness ==
    /\ After("Next")
    /\ Len(stack) = 2
    /\ Top(stack).type = "Table"
    /\ DOMAIN Top(stack).v # {}
    /\ stack[1].type = "Stream"
    /\ Answers(stack[1].v) # << >>

\* Conj2(Unify(Variable(p_i), a_i), Conj2(..., Conj2(Unify(Variable(p_n), a_n), body))).
RECURSIVE Wrapped(_, _, _, _)
Wrapped(parameters, arguments, i, body) ==
    IF i > Len(parameters) THEN body
    ELSE Conj2(EqualsExpr(Variable(parameters[i]), arguments[i]),
               Wrapped(parameters, arguments, i + 1, body))

\* The Call that pushed the frame the last opcode was dispatched in.
CallOfPrev ==
    trace[Max({i \in 1..Len(trace) :
                 trace[i].op = "Call" /\ trace[i].depth = Prev.depth - 1})]

\* The values of the n Terms under the top of the stack.
ArgumentsUnder(stk, n) == [i \in 1..n |-> stk[Len(stk) - n - 1 + i].v]

\* Ret was dispatched in a Relation frame with the body's Goal on top of its
\* arguments.
RetOfRelation ==
    /\ After("Ret")
    /\ Prev.frame.kind = "Relation"
    /\ Len(Prev.stack) >= Len(Prev.frame.parameters) + 1
    /\ Top(Prev.stack).type = "Goal"
    /\ \A i \in 1..Len(Prev.frame.parameters) :
          Prev.stack[Len(Prev.stack) - i].type = "Term"

\* C13: Ret from a Relation frame with parameters p1..pn pops the body Goal and
\* the n argument Terms a1..an (a_i the i-th pushed before Call) and pushes the
\* one Goal Conj2(Unify(Variable(p1), a1), Conj2(..., Conj2(Unify(Variable(pn),
\* an), body))); from Call to Ret the n arguments and the callable are replaced
\* by that Goal.
C13_RetWrapsParameters ==
    RetOfRelation =>
        LET n == Len(Prev.frame.parameters)
            before == Prev.stack
            atCall == CallOfPrev.stack
            wrapped == GoalV(Wrapped(Prev.frame.parameters, ArgumentsUnder(before, n),
                                  1, Top(before).v))
        IN  /\ stack = SubSeq(before, 1, Len(before) - n - 1) \o <<wrapped>>
            /\ Len(before) = Len(atCall) =>
                  /\ ArgumentsUnder(before, n) = ArgumentsUnder(atCall, n)
                  /\ stack = SubSeq(atCall, 1, Len(atCall) - n - 1) \o <<wrapped>>

\* A relation of two parameters has returned: the first parameter is unified
\* with the argument pushed first.
C13_Witness ==
    /\ RetOfRelation
    /\ Prev.frame.parameters = <<2, 3>>
    /\ stack = <<GoalV(Conj2(EqualsExpr(Variable(2), Atom(1)),
                             Conj2(EqualsExpr(Variable(3), Variable(1)),
                                   EqualsExpr(Atom(2), Variable(1)))))>>

\* The positions of the trace at which the outermost frame dispatched.
CallerSteps == {i \in 1..Len(trace) : trace[i].depth = 1}

\* The Call the frame dispatching at position i of the trace was pushed by.
CallOf(i) ==
    trace[Max({j \in 1..i : trace[j].op = "Call" /\ trace[j].depth = trace[i].depth - 1})]

\* C14: the instruction dispatched after a Call is the callee's instruction 0,
\* the instruction dispatched after the callee's Ret is the caller's
\* instruction following that Call, and every instruction of the caller is
\* dispatched exactly once, none skipped.
C14_CallRetOrdering ==
    /\ \A i \in 1..(Len(trace) - 1) :
          /\ trace[i].op = "Call" /\ trace[i + 1].depth = trace[i].depth + 1 =>
                trace[i + 1].ip = 0
          /\ trace[i].op = "Ret" /\ trace[i].depth > 1 =>
                /\ trace[i + 1].depth = trace[i].depth - 1
                /\ trace[i + 1].ip = CallOf(i).ip + 1
    /\ \A i \in CallerSteps :
          trace[i].ip = Cardinality({j \in CallerSteps : j < i})

\* The same ordering when every callee that returns does so by a Ret.
C14_OrderingWithRet ==
    (\A i \in 1..Len(trace) :
        trace[i].depth > 1 /\ trace[i].ip + 1 = Len(trace[i].frame.instructions) =>
            trace[i].op = "Ret")
        => C14_CallRetOrdering

\* The caller has dispatched the instruction after a Call whose callee
\* returned by Ret.
C14_Witness ==
    /\ Len(trace) >= 3
    /\ trace[Len(trace) - 1].op = "Ret"
    /\ trace[Len(trace) - 1].depth = 2
    /\ Prev.depth = 1
    /\ Prev.op = "Solve"

\* C15: run ends by halting normally on an empty callstack or by returning a
\* RuntimeError; it never fetches an instruction out of range and never
\* reaches an unreachable!, whatever the instruction buffer.
C15_RunHaltsOrErrors == status.state # "panic"

\* run has returned a RuntimeError from the opcode dispatched last.
Failed == status.state = "error" /\ trace # << >>

\* The RuntimeError carries the index of the failing instruction, which bound
\* nothing in the environment, and its frame is still on top of the callstack
\* with its ip at that instruction.
FrameLeft ==
    /\ status.ip = Prev.ip
    /\ env = Prev.env
    /\ Len(callstack) = Prev.depth
    /\ Top(callstack) = Prev.frame

\* Nothing is dispatched once run has returned a RuntimeError.
NothingAfterError == [][status.state = "error" => Len(trace') # Len(trace) + 1]_vars

\* C16: every failure (pop from an empty stack, operand of the wrong kind,
\* SetEnv with a key that is not a Variable, GetEnv of an unbound id, Call of
\* a non-Callable) returns a RuntimeError whose ip is the index of the failing
\* instruction, the last one dispatched; the environment gets no binding, and
\* the frame stays on the callstack at the failing instruction.
C16_FailureLeavesFrame == Failed => FrameLeft

\* The same for every opcode but Ret, which has popped its frame before it
\* looks at the stack: then the RuntimeError still carries the index of the
\* Ret and binds nothing, and the frame of the caller is on top.
C16_FailureLeavesFrameUnlessRet ==
    /\ [](Failed /\ Prev.op # "Ret" => FrameLeft)
    /\ [](Failed /\ Prev.op = "Ret" =>
            /\ status.ip = Prev.ip
            /\ env = Prev.env
            /\ Len(callstack) = Prev.depth - 1)
    /\ NothingAfterError

\* A SetEnv whose key is an Atom has failed.
C16_Witness ==
    /\ Failed
    /\ Prev.op = "SetEnv"
    /\ Len(Prev.stack) >= 2
    /\ Prev.stack[Len(Prev.stack) - 1].type = "Term"
    /\ Prev.stack[Len(Prev.stack) - 1].v.k = "Atom"
    /\ status.msg = "TypeError: Expected variable."

\* A Variable term is on top of the stack.
IsKey(stk) == stk # << >> /\ Top(stk).type = "Term" /\ Top(stk).v.k = "Variable"

\* Position j of the trace dispatched a SetEnv of id with a value on a key.
SetOf(j, id) ==
    /\ trace[j].op = "SetEnv"
    /\ Len(trace[j].stack) >= 2
    /\ IsKey(Pop(trace[j].stack))
    /\ Top(Pop(trace[j].stack)).v.id = id

\* The positions before the last at which id was set.
SetsOf(id) == {j \in 1..(Len(trace) - 1) : SetOf(j, id)}

\* The value the latest SetEnv of id stored.
StoredFor(id) == Top(trace[Max(SetsOf(id))].stack)

\* C17: SetEnv binds the id of the key to the value and pops both; a later
\* GetEnv of that id pushes a value equal to the one stored by the latest
\* SetEnv of the id and leaves the environment as it is, as often as it is
\* repeated; the value is a Term, a Goal, a Table, None or a Callable.
C17_EnvRoundTrip ==
    /\ After("SetEnv") /\ SetOf(Len(trace), Top(Pop(Prev.stack)).v.id) =>
          /\ status.state # "error"
          /\ stack = Pop(Pop(Prev.stack))
          /\ DOMAIN env = DOMAIN Prev.env \cup {Top(Pop(Prev.stack)).v.id}
          /\ \A id \in DOMAIN env :
                env[id] = IF id = Top(Pop(Prev.stack)).v.id THEN Top(Prev.stack)
                          ELSE Prev.env[id]
    /\ After("GetEnv") /\ IsKey(Prev.stack) /\ SetsOf(Top(Prev.stack).v.id) # {}
          /\ StoredFor(Top(Prev.stack).v.id).type # "Stream" =>
          /\ status.state # "error"
          /\ stack = Append(Pop(Prev.stack), StoredFor(Top(Prev.stack).v.id))
          /\ env = Prev.env
    /\ \A i \in 1..(Len(trace) - 1) :
          trace[i + 1].env # trace[i].env => trace[i].op = "SetEnv"

\* A second GetEnv has pushed the value again.
C17_Witness ==
    /\ After("GetEnv")
    /\ Len(stack) = 2
    /\ stack[1] = stack[2]
    /\ SetsOf(1) # {}
    /\ stack[2] = StoredFor(1)

\* The id of the Variable on top of the stack the last opcode was dispatched on.
KeyOfPrev == Top(Prev.stack).v.id

\* C18: a SetEnv whose value is a Stream succeeds and binds it; every GetEnv
\* of an id bound to a Stream returns a RuntimeError and the binding stays.
C18_StreamStoredNotRetrieved ==
    /\ After("SetEnv") /\ SetOf(Len(trace), Top(Pop(Prev.stack)).v.id)
          /\ Top(Prev.stack).type = "Stream" =>
          /\ status.state # "error"
          /\ env[Top(Pop(Prev.stack)).v.id] = Top(Prev.stack)
    /\ After("GetEnv") /\ IsKey(Prev.stack) /\ KeyOfPrev \in DOMAIN Prev.env
          /\ Prev.env[KeyOfPrev].type = "Stream" =>
          /\ status.state = "error"
          /\ status.msg = "Accessing streams through variables is not implemented."
          /\ status.ip = Prev.ip
          /\ stack = Pop(Prev.stack)
          /\ env = Prev.env

\* A GetEnv of an id bound to a Stream has failed, and the Stream is still
\* bound.
C18_Witness ==
    /\ After("GetEnv")
    /\ IsKey(Prev.stack)
    /\ status.state = "error"
    /\ KeyOfPrev \in DOMAIN env
    /\ env[KeyOfPrev].type = "Stream"

\* The n values on top of the stack are Terms and the one under them a Table.
TermsOnTable(stk, n) ==
    /\ Len(stk) >= n + 1
    /\ \A i \in 0..(n - 1) : stk[Len(stk) - i].type = "Term"
    /\ stk[Len(stk) - n].type = "Table"

\* C19: SetTable pops the value Term and then the key Term and inserts
\* key -> value into the Table then on top, which stays on the stack, in
\* place of any earlier value of the key; GetTable pops the key, leaves the
\* Table as it is, and pushes the Term stored under the key, or None.
C19_TableSetGet ==
    /\ After("SetTable") /\ TermsOnTable(Prev.stack, 2) =>
          LET value == Top(Prev.stack).v
              key == Top(Pop(Prev.stack)).v
              rest == Pop(Pop(Prev.stack))
          IN  /\ status.state # "error"
              /\ Len(stack) = Len(Prev.stack) - 2
              /\ Pop(stack) = Pop(rest)
              /\ Top(stack).type = "Table"
              /\ DOMAIN Top(stack).v = DOMAIN Top(rest).v \cup {key}
              /\ \A k \in DOMAIN Top(stack).v :
                    Top(stack).v[k] = IF k = key THEN value ELSE Top(rest).v[k]
    /\ After("GetTable") /\ TermsOnTable(Prev.stack, 1) =>
          LET key == Top(Prev.stack).v
              table == Top(Pop(Prev.stack)).v
          IN  /\ status.state # "error"
              /\ stack = Append(Pop(Prev.stack),
                                IF key \in DOMAIN table THEN TermV(table[key])
                                ELSE NoneV)

\* GetTable has read the value a second SetTable put in place of the first.
C19_Witness ==
    /\ After("GetTable")
    /\ Cardinality({i \in 1..Len(trace) : trace[i].op = "SetTable"}) = 2
    /\ stack = <<TableV(TableOf(Bind(1, Atom(1)))), TermV(Atom(1))>>

\* C20: after any sequence of unify calls from the empty substitution no
\* variable is bound to itself: the term stored under v is never Variable(v).
C20_NoSelfBinding == \A v \in DOMAIN bindings : bindings[v] # Variable(v)

\* A variable was unified with itself, or with the variable it is bound to,
\* and the call succeeded without a new binding.
C20_Witness ==
    /\ call.n >= 1
    /\ call.ok
    /\ call.left.k = "Variable"
    /\ call.right.k = "Variable"
    /\ walk(call.left, call.before) = walk(call.right, call.before)
    /\ bindings = call.before

\* The bindings after the call are the bindings before it and one more, for v.
AddsOnly(v) ==
    /\ v \notin DOMAIN call.before
    /\ DOMAIN bindings = DOMAIN call.before \cup {v}
    /\ \A k \in DOMAIN call.before : bindings[k] = call.before[k]

\* C21: when the left side walks to an unbound variable v and the right side
\* walks to something else, unify succeeds and adds exactly one binding, for
\* v; when both walk to the same unbound variable it succeeds and changes
\* nothing; so (x, x) with (y, y) and (x, x, x) with (y, y, y) leave the one
\* binding x -> y.
C21_VariableRule ==
    /\ call.n >= 1 /\ call.left.k = "Variable"
          /\ walk(call.left, call.before).k = "Variable" =>
          LET x == walk(call.left, call.before)
              y == walk(call.right, call.before)
          IN  /\ call.ok
              /\ IF y = x THEN bindings = call.before ELSE AddsOnly(x.id)
    /\ \A x, y \in VarIds :
          call.n >= 1 /\ x # y /\ call.before = EmptySubst
             /\ \/ call.left = Tuple(<<Variable(x), Variable(x)>>)
                   /\ call.right = Tuple(<<Variable(y), Variable(y)>>)
                \/ call.left = Tuple(<<Variable(x), Variable(x), Variable(x)>>)
                   /\ call.right = Tuple(<<Variable(y), Variable(y), Variable(y)>>)
          => call.ok /\ bindings = Bind(x, Variable(y))

\* (x, x, x) was unified with (y, y, y): the first pair bound x, the other two
\* found both sides walking to y.
C21_Witness ==
    /\ call.n = 1
    /\ call.left = Tuple(<<Variable(1), Variable(1), Variable(1)>>)
    /\ call.right = Tuple(<<Variable(2), Variable(2), Variable(2)>>)
    /\ bindings = Bind(1, Variable(2))

\* The bindings after the first i pairs of u and v were unified in turn,
\* starting from b.
RECURSIVE AccumulatedAt(_, _, _, _)
AccumulatedAt(u, v, i, b) ==
    IF i = 0 THEN b
    ELSE unify(u[i], v[i], AccumulatedAt(u, v, i - 1, b)).b

\* C22: unify of two tuples is true iff they have the same arity and every
\* pair of elements, left to right, unifies under the bindings accumulated
\* from the pairs before it; unify of an atom with a tuple is false.
C22_TupleRule ==
    /\ call.n >= 1 /\ call.left.k = "Tuple" /\ call.right.k = "Tuple" =>
          LET u == call.left.args
              v == call.right.args
          IN  call.ok <=>
                 /\ Len(u) = Len(v)
                 /\ \A i \in 1..Len(u) :
                       unify(u[i], v[i], AccumulatedAt(u, v, i - 1, call.before)).ok
    /\ call.n >= 1 /\ {call.left.k, call.right.k} = {"Atom", "Tuple"} => ~call.ok

\* (x, x) against two different atoms: the second pair fails under the
\* binding the first pair made.
C22_Witness ==
    /\ call.n = 1
    /\ call.left = Tuple(<<Variable(1), Variable(1)>>)
    /\ call.right = Tuple(<<Atom(1), Atom(2)>>)
    /\ ~call.ok
    /\ bindings = Bind(1, Atom(1))

\* The terms unify looks at: the term itself, or the elements of a tuple.
Leaves(t) == IF t.k = "Tuple" THEN {t.args[i] : i \in 1..Len(t.args)} ELSE {t}

\* The first pair of elements that does not unify under the bindings
\* accumulated before it.
FirstFailing(u, v, b) ==
    LET failing == {i \in 1..Len(u) :
                       ~unify(u[i], v[i], AccumulatedAt(u, v, i - 1, b)).ok}
    IN  CHOOSE i \in failing : \A j \in failing : i <= j

\* C23: unify never removes or changes a binding, whatever it returns: every
\* key bound before is bound to the same term afterwards, and a new key is a
\* variable that was unbound before.  When unify returns false the only new
\* bindings are those of the tuple element pairs before the first failing
\* pair; a failure of anything but two tuples leaves the bindings unchanged.
C23_BindingsOnlyGrow ==
    call.n >= 1 =>
        /\ \A k \in DOMAIN call.before :
              k \in DOMAIN bindings /\ bindings[k] = call.before[k]
        /\ \A k \in DOMAIN bindings \ DOMAIN call.before :
              \E t \in Leaves(call.left) \cup Leaves(call.right) :
                 walk(t, call.before) = Variable(k)
        /\ ~call.ok =>
              IF /\ call.left.k = "Tuple" /\ call.right.k = "Tuple"
                 /\ Len(call.left.args) = Len(call.right.args)
              THEN LET u == call.left.args
                       v == call.right.args
                   IN  bindings =
                          AccumulatedAt(u, v, FirstFailing(u, v, call.before) - 1,
                                        call.before)
              ELSE bindings = call.before

\* A second call failed on its second pair after binding a variable for its
\* first, and the binding of the first call is still there.
C23_Witness ==
    /\ call.n = 2
    /\ ~call.ok
    /\ call.before = Bind(1, Atom(1))
    /\ call.left = Tuple(<<Variable(2), Variable(1)>>)
    /\ call.right = Tuple(<<Atom(2), Atom(2)>>)
    /\ bindings = Insert(Bind(1, Atom(1)), 2, Atom(2))

\* C24: walk is idempotent: walking the term walk returned gives the same
\* term again; that term is never a variable with a binding; and through a
\* chain x -> y -> z -> atom, x resolves to the atom.
C24_WalkIdempotent ==
    resolved.some =>
        /\ walk(resolved.result, bindings) = resolved.result
        /\ ~(resolved.result.k = "Variable" /\ resolved.result.id \in DOMAIN bindings)
        /\ \A x, y, z \in WalkVarIds : \A a \in Atoms :
              /\ DOMAIN bindings = {x, y, z} /\ Cardinality({x, y, z}) = 3
              /\ bindings[x] = Variable(y) /\ bindings[y] = Variable(z)
              /\ bindings[z] = a /\ resolved.term = Variable(x)
              => resolved.result = a

\* walk was called on the first variable of a chain of three.
C24_Witness ==
    /\ resolved.some
    /\ DOMAIN bindings = {1, 2, 3}
    /\ bindings[1] = Variable(2)
    /\ bindings[2] = Variable(3)
    /\ bindings[3] = Atom(1)
    /\ resolved.term = Variable(1)
    /\ resolved.result = Atom(1)

\* C25: the interner never gives an id out twice: every intern call returns
\* an id greater than every id returned before, also for a name interned
\* before, and the id is looked up to the name of its call from then on,
\* whatever is interned later.
C25_InternerAppendOnly ==
    /\ \A i, j \in 1..Len(allocated) :
          i < j => allocated[i].id < allocated[j].id
    /\ \A i \in 1..Len(allocated) :
          /\ allocated[i].id \in DOMAIN interned
          /\ interned[allocated[i].id] = allocated[i].name
    /\ DOMAIN interned = {allocated[i].id : i \in 1..Len(allocated)}

\* One name has been interned twice, in two eval calls, with other names
\* interned in between.
C25_Witness ==
    /\ evals = 2
    /\ \E i, j \in 1..Len(allocated) :
          /\ i + 1 < j
          /\ allocated[i].name = allocated[j].name
          /\ allocated[i].id < allocated[j].id

\* The state of the generator after the first i nodes were generated in turn.
RECURSIVE AfterNodes(_, _, _)
AfterNodes(nodes, i, st) ==
    IF i = 0 THEN st ELSE generate(nodes[i], AfterNodes(nodes, i - 1, st))

\* The instructions generating node i appends.
CodeOf(nodes, i, st) ==
    LET a == AfterNodes(nodes, i - 1, st)
        b == AfterNodes(nodes, i, st)
    IN  SubSeq(b.instr, Len(a.instr) + 1, Len(b.instr))

\* The code of child i and of those after it, each child but the first
\* followed by the combinator.
RECURSIVE Postfix(_, _, _, _)
Postfix(nodes, i, opcode, st) ==
    IF i > Len(nodes) THEN << >>
    ELSE CodeOf(nodes, i, st) \o (IF i > 1 THEN <<opcode>> ELSE << >>)
            \o Postfix(nodes, i + 1, opcode, st)

\* The source is one Conj or Disj of at least one child.
Joined(src) ==
    /\ Len(src.ast.kids) = 1
    /\ src.ast.kids[1].node \in {"Conj", "Disj"}
    /\ Len(src.ast.kids[1].kids) >= 1

Combinator(node) == IF node = "Conj" THEN Op("Conj2") ELSE Op("Disj2")

\* The number of instructions generate emitted for the source.
Generated == Len(callstack[1].instructions) - Len(source.tail)

\* eval has compiled a Conj or Disj: the buffer run is given holds the code
\* of the children with the combinator after every child but the first.
JoinedCompiled ==
    evals' = evals + 1 /\ status'.state = "running" /\ Joined(source') =>
        LET node == source'.ast.kids[1]
            code == callstack'[1].instructions
            st == GenState(ctx, next_id, interned, << >>)
        IN  code = Postfix(node.kids, 1, Combinator(node.node), st) \o source'.tail

\* The code generated for a Conj or Disj has run: one Goal is on the stack.
JoinedRan ==
    /\ Joined(source)
    /\ status.state = "running"
    /\ Len(callstack) = 1
    /\ Frame.ip = Generated
    /\ Len(trace) = Generated

\* C26: for a Conj (Disj) of N >= 1 children the generator emits the code of
\* child 1 and then, for each further child, its code followed by one Conj2
\* (Disj2): N - 1 combinators in postfix position; running the code leaves
\* exactly one Goal on the stack.
C26_JoinedPostfix ==
    /\ [](JoinedRan => Len(stack) = 1 /\ stack[1].type = "Goal")
    /\ [][JoinedCompiled]_vars

\* The code of a Conj of three children has run and left one Goal.
C26_Witness ==
    /\ JoinedRan
    /\ source.ast.kids[1].node = "Conj"
    /\ Len(source.ast.kids[1].kids) = 3
    /\ Generated = 11
    /\ Len(stack) = 1
    /\ stack[1].type = "Goal"

RECURSIVE DeclaredIn(_)
RECURSIVE FreeIn(_)

\* The names the var blocks of ast declare.
DeclaredIn(ast) ==
    (IF ast.node = "Var" THEN {ast.kids[i].name : i \in 1..Len(ast.kids)} ELSE {})
        \cup UNION {DeclaredIn(ast.kids[i]) : i \in 1..Len(ast.kids)}
        \cup UNION {DeclaredIn(ast.body[i]) : i \in 1..Len(ast.body)}

\* The names ast refers to outside every var block that declares them.
FreeIn(ast) ==
    CASE ast.node \in {"Atom", "Variable", "BindingRef"} -> {ast.name}
      [] ast.node = "LetBinding" -> {ast.name} \cup FreeIn(ast.body[1])
      [] ast.node = "Var" ->
            FreeIn(ast.body[1]) \ {ast.kids[i].name : i \in 1..Len(ast.kids)}
      [] ast.node = "Relation" -> FreeIn(ast.body[1])
      [] OTHER -> UNION {FreeIn(ast.kids[i]) : i \in 1..Len(ast.kids)}

\* eval has been called and has compiled src.
Compiled(src) == evals' = evals + 1 /\ source' = src

\* q == 'olive, var (q) { q == 'oil }, q == 'olive
Shadowing ==
    AstProgram(<<AstConj(<<Tick("q", "olive"),
                           AstVar(<<AstVariable("q")>>, Tick("q", "oil")),
                           Tick("q", "olive")>>)>>)

\* var (q) { q == 'olive }, var (q) { q == 'oil }
TwoBlocks ==
    AstProgram(<<AstConj(<<AstVar(<<AstVariable("q")>>, Tick("q", "olive")),
                           AstVar(<<AstVariable("q")>>, Tick("q", "oil"))>>)>>)

\* The id the Variable instruction at position i of the compiled code names.
VariableAt(i) == callstack'[1].instructions[i].arg

\* The var block gives q a new id, its body refers to that id, and the
\* references before and after the block share another one.
ShadowingCompiled ==
    \A t \in Tails : Compiled(TestSource(Shadowing, t)) =>
        /\ VariableAt(1) = VariableAt(8)
        /\ VariableAt(4) # VariableAt(1)
        /\ \A i \in 1..2 : VariableAt(4) > allocated'[i].id
        /\ allocated'[3] = [id |-> VariableAt(4), name |-> "q"]
        /\ interned'[VariableAt(4)] = "q"

\* Two var blocks of one program give q two ids.
TwoBlocksCompiled ==
    \A t \in Tails : Compiled(TestSource(TwoBlocks, t)) =>
        /\ VariableAt(1) # VariableAt(4)
        /\ VariableAt(1) < VariableAt(4)

\* After the eval a name the source only declares in var blocks resolves to
\* what it resolved to before.
BlocksClosed ==
    evals' = evals + 1 =>
        \A name \in DeclaredIn(source'.ast) \ FreeIn(source'.ast) :
            Lookup(ctx', name) = Lookup(ctx, name)

C27_VarBlockScopedUnlessError ==
    [][/\ ShadowingCompiled
       /\ TwoBlocksCompiled
       /\ status'.state # "syntax" => BlocksClosed]_vars

C27_ScopeLeft ==
    /\ status.state = "syntax"
    /\ source.ast.kids[1].node = "Var"
    /\ Len(ctx) = 2

\* The source is one relation literal.
RelationLiteral(src) ==
    /\ src.print
    /\ Len(src.ast.kids) = 1
    /\ src.ast.kids[1].node = "Relation"

\* The state of the generator after n more names were interned.
RECURSIVE Interned(_, _, _)
Interned(names, n, st) ==
    IF n = 0 THEN st ELSE Intern(Interned(names, n - 1, st), names[n].name)

\* eval has compiled a relation literal: run is given the one instruction
\* Callable, with the ids of the parameters, new and in the order of their
\* declaration, and with the code of the body in a buffer of its own.
RelationCompiled ==
    evals' = evals + 1 /\ RelationLiteral(source') /\ status'.state = "running" =>
        LET rel == source'.ast.kids[1]
            n == Len(rel.kids)
            code == callstack'[1].instructions
            st == Interned(rel.kids, n, GenState(ctx, next_id, interned, << >>))
        IN  /\ Len(code) = 1
            /\ code[1].op = "Callable"
            /\ code[1].kind = "Relation"
            /\ code[1].ip = 0
            /\ code[1].parameters = [i \in 1..n |-> next_id + i]
            /\ \A i \in 1..n : /\ next_id + i \notin DOMAIN interned
                               /\ interned'[next_id + i] = rel.kids[i].name
            /\ code[1].instructions = generate(rel.body[1], st).instr
            /\ code[1].instructions # << >>

\* The code of a relation literal has run.
RelationRan ==
    /\ RelationLiteral(source)
    /\ status.state = "running"
    /\ Len(trace) = 1

\* C28: a relation literal of n parameters adds one instruction to the outer
\* buffer, Callable(Relation, the n newly interned ids of the parameters in
\* the order of their declaration, the code of the body, ip 0), and none of
\* the instructions of the body; running the outer code pushes one Callable.
C28_RelationIsOneCallable ==
    /\ [](RelationRan =>
            /\ Len(stack) = 1
            /\ stack[1].type = "Callable"
            /\ stack[1].v.kind = "Relation"
            /\ stack[1].v.ip = 0
            /\ Len(stack[1].v.parameters) = Len(source.ast.kids[1].kids)
            /\ callstack = << >>)
    /\ [][RelationCompiled]_vars

\* The literal of a relation of two parameters has been compiled in a second
\* eval and has run.
C28_Witness ==
    /\ RelationRan
    /\ evals = 2
    /\ Len(stack) = 1
    /\ stack[1].type = "Callable"
    /\ Len(stack[1].v.parameters) = 2
    /\ stack[1].v.parameters[1] > 1
    /\ stack[1].v.parameters[2] = stack[1].v.parameters[1] + 1

\* The Callable instruction eval has compiled a relation literal to.
Literal == callstack[1].instructions[1]

\* A relation literal has been compiled and run has not dispatched yet.
RelationReady ==
    /\ RelationLiteral(source)
    /\ status.state = "running"
    /\ trace = << >>

\* C29: the parameters of a relation are scoped over its body: in the body a
\* reference to the name of the i-th parameter compiles to Variable(id) with
\* id the i-th id of the parameter list of the Callable.
C29_ParametersScopeBody ==
    RelationReady =>
        \A j \in 1..Len(Literal.instructions) : \A i \in 1..Len(Literal.parameters) :
            /\ Literal.instructions[j].op = "Variable"
            /\ interned[Literal.instructions[j].arg] = source.ast.kids[1].kids[i].name
            => Literal.instructions[j].arg = Literal.parameters[i]

\* rel (q) { disj { q == 'olive | q == 'oil } } has been compiled: the body
\* names a variable q.
C29_Witness ==
    /\ RelationReady
    /\ Len(Literal.parameters) = 1
    /\ interned[Literal.parameters[1]] = "q"
    /\ Literal.instructions[1].op = "Variable"
    /\ interned[Literal.instructions[1].arg] = "q"

\* var (q) { rel (r) { q == r } }
Enclosed ==
    AstProgram(<<AstVar(<<AstVariable("q")>>,
                        AstRelation(<<AstVariable("r")>>,
                                    AstEquals(AstVariable("q"), AstVariable("r"))))>>)

\* The q of the body of the relation is not the q of the var block around it.
EnclosingHidden ==
    Compiled(MainSource(Enclosed)) =>
        LET outer == allocated'[Len(allocated) + 1]
            body == callstack'[1].instructions[1].instructions
        IN  /\ outer.name = "q"
            /\ body[1].op = "Variable"
            /\ interned'[body[1].arg] = "q"
            /\ body[1].arg # outer.id

\* A variable the body of a relation literal introduces resolves to nothing
\* after the literal.
BodyNamesDropped ==
    evals' = evals + 1 /\ RelationLiteral(source') /\ status'.state = "running" =>
        LET body == callstack'[1].instructions[1].instructions
        IN  \A j \in 1..Len(body) :
                /\ body[j].op = "Variable"
                /\ Lookup(ctx, interned'[body[j].arg]) = None
                => Lookup(ctx', interned'[body[j].arg]) = None

\* C30: the body of a relation sees only its parameters: a name bound in an
\* enclosing scope does not resolve to the enclosing id inside the body, and
\* a name first introduced in the body is not visible to the code generated
\* after the relation literal.
C30_BodySeesOnlyParameters == [][EnclosingHidden /\ BodyNamesDropped]_vars

\* A relation literal was compiled inside a var block whose name its body
\* mentions.
C30_Witness ==
    /\ source = MainSource(Enclosed)
    /\ status.state = "running"
    /\ trace # << >>
    /\ Len(stack) = 1
    /\ stack[1].type = "Callable"

-----------------------------------------------------------------------------
(* Claims about names, built-in calls and successive evals, under SpecVM.  *)

\* The names main's sources mention.
AllNames == Names \cup AtomNames \cup {"x", "z"}

RECURSIVE References(_, _)
\* The Atom and Variable instructions of code from the i-th on, those of the
\* bodies of its Callables included.
References(code, i) ==
    IF i > Len(code) THEN << >>
    ELSE (CASE code[i].op \in {"Atom", "Variable"} -> <<code[i]>>
            [] code[i].op = "Callable" -> References(code[i].instructions, 1)
            [] OTHER -> << >>) \o References(code, i + 1)

\* Resolving a name in the scope that is innermost now gives an id the
\* context then finds, and resolving it again gives the same id and interns
\* nothing more.
ResolvesOnce ==
    \A name \in AllNames :
        LET st == GenState(ctx, next_id, interned, << >>)
            first == Resolve(st, name)
            again == Resolve(first.st, name)
        IN  /\ Lookup(first.st.ctx, name) = Some(first.id)
            /\ again.id = first.id
            /\ again.st = first.st
            /\ Lookup(ctx, name).some => first.id = Lookup(ctx, name).v /\ first.st = st
            /\ ~Lookup(ctx, name).some =>
                   /\ first.id \notin DOMAIN interned
                   /\ first.st.interned[first.id] = name
                   /\ first.st.ctx[Len(ctx)][name] = first.id

\* A source without var blocks is compiled with one scope innermost: all
\* its references to one name carry one id, the id the context had for the
\* name or else a new one, and the context has it afterwards.
OneIdPerName ==
    /\ evals' = evals + 1
    /\ source'.print
    /\ DeclaredIn(source'.ast) = {}
    /\ status'.state = "running"
    => LET refs == References(callstack'[1].instructions, 1)
       IN  \A i \in 1..Len(refs) :
               /\ \A j \in 1..Len(refs) :
                      interned'[refs[i].arg] = interned'[refs[j].arg]
                          => refs[i].arg = refs[j].arg
               /\ Lookup(ctx', interned'[refs[i].arg]) = Some(refs[i].arg)
               /\ Lookup(ctx, interned'[refs[i].arg]).some
                      => Lookup(ctx, interned'[refs[i].arg]).v = refs[i].arg
               /\ ~Lookup(ctx, interned'[refs[i].arg]).some
                      => refs[i].arg \notin DOMAIN interned

\* C31: within one lexical scope a name resolves to a single id: all the
\* references to one name made while one scope is innermost (atom, variable,
\* let name, binding reference) compile to the same id, the first reference
\* interning it and the later ones finding it by lookup.
C31_OneIdPerScope == []ResolvesOnce /\ [][OneIdPerName]_vars

\* let x = {x: 'olive, r: 'oil}, let r = ..., x, r has been compiled: the let
\* name x, the key x and the reference x carry one id, and so do the key r,
\* the let name r and the reference r.
C31_Witness ==
    /\ status.state = "running"
    /\ trace = << >>
    /\ source.print
    /\ Len(source.ast.kids) = 4
    /\ LET code == callstack[1].instructions
       IN  /\ Len(code) = 18
           /\ code[1].op = "Variable" /\ code[3] = code[1] /\ code[15] = code[1]
           /\ code[6].op = "Variable" /\ code[10] = code[6] /\ code[17] = code[6]
           /\ code[6] # code[1]

\* src is one call, as main reads it.
OneCall(src) ==
    /\ src.print
    /\ Len(src.ast.kids) = 1
    /\ src.ast.kids[1].node = "FnCall"

\* next(first('olive))
UnknownInside == AstProgram(<<Nexted(AstFnCall("first", <<AstAtom("olive")>>, 6))>>)

\* eval compiles a call: the code of a solve or a next is the code of its
\* arguments in their order and then the one opcode; a call of another name
\* ends eval with the SyntaxError at the offset of that call.
CallCompiled ==
    evals' = evals + 1 /\ OneCall(source') =>
        LET fn == source'.ast.kids[1]
            args == GenerateEach(fn.kids, 1, GenState(ctx, next_id, interned, << >>))
        IN  /\ fn.name \in {"solve", "next"} /\ ~args.err.some =>
                /\ status'.state = "running"
                /\ Len(callstack'[1].instructions) = Len(args.instr) + 1
                /\ SubSeq(callstack'[1].instructions, 1, Len(args.instr)) = args.instr
                /\ callstack'[1].instructions[Len(args.instr) + 1] =
                       Op(IF fn.name = "solve" THEN "Solve" ELSE "Next")
            /\ fn.name \notin {"solve", "next"} =>
                /\ status' = Status("syntax", "Undefined function", fn.offset)
                /\ callstack' = << >>
            /\ source'.ast = UnknownInside =>
                /\ status' = Status("syntax", "Undefined function", 6)
                /\ callstack' = << >>

\* After a SyntaxError nothing is run.
NotExecuted ==
    status.state = "syntax" =>
        /\ callstack = << >>
        /\ stack = << >>
        /\ trace = << >>
        /\ output = None

\* C32: for a call named solve or next the generator emits the code of
\* every argument in order and then exactly one Solve or Next; for any other
\* name generate returns a SyntaxError with the offset of the call, and the
\* program is not executed.
C32_BuiltinCalls == []NotExecuted /\ [][CallCompiled]_vars

\* next(solve(q == 'olive, r == 'oil)) was compiled to the two goals, one
\* Solve and one Next, and first('olive) stopped an eval before.
C32_Witness ==
    /\ evals = 2
    /\ OneCall(source)
    /\ status.state = "running"
    /\ trace = << >>
    /\ Len(callstack[1].instructions) = 8
    /\ callstack[1].instructions[3] = Op("Unify")
    /\ callstack[1].instructions[6] = Op("Unify")
    /\ callstack[1].instructions[7] = Op("Solve")
    /\ callstack[1].instructions[8] = Op("Next")
    /\ "olive" \in DOMAIN ctx[1]
    /\ ctx[1]["olive"] = 1

\* first('olive) has ended an eval with the SyntaxError at offset 1.
C32_Refused ==
    /\ status = Status("syntax", "Undefined function", 1)
    /\ OneCall(source)
    /\ source.ast.kids[1].name = "first"

\* At position i of the trace a called frame dispatched its last instruction,
\* which was no Ret, and run went on.
RanOut(i) ==
    /\ i < Len(trace)
    /\ trace[i].depth > 1
    /\ trace[i].op \notin {"Ret", "Call"}
    /\ trace[i].ip + 1 = Len(trace[i].frame.instructions)

\* C33: when the ip of a called frame reaches the length of its buffer
\* without a Ret, the frame is popped and the caller continues with the
\* instruction following its Call; the Call is not dispatched a second time.
C33_ImplicitReturn ==
    \A i \in 1..Len(trace) :
        RanOut(i) =>
            /\ trace[i + 1].depth = trace[i].depth - 1
            /\ trace[i + 1].ip = CallOf(i).ip + 1
            /\ ~(trace[i + 1].op = "Call" /\ trace[i + 1].ip = CallOf(i).ip)

\* The body of a relation ended with its Unify and the frame was popped.
C33_Witness ==
    /\ Len(trace) >= 2
    /\ RanOut(Len(trace) - 1)
    /\ trace[Len(trace) - 1].op = "Unify"
    /\ trace[Len(trace) - 1].frame.kind = "Relation"
    /\ Prev.depth = trace[Len(trace) - 1].depth - 1

-----------------------------------------------------------------------------
(* Further claims about unify, under SpecUnify.                            *)

\* C34: after any sequence of unify calls from the empty substitution the
\* bindings hold no cycle of variables, so that walk returns for every term:
\* following at most as many bindings as there are leads every term to an
\* unbound variable, an atom or a tuple.
C34_NoCycle ==
    /\ Terminates(bindings)
    /\ \A t \in Terms :
          LET r == Follow(t, bindings, Cardinality(DOMAIN bindings))
          IN  /\ ~(r.k = "Variable" /\ r.id \in DOMAIN bindings)
              /\ walk(t, bindings) = r

\* x is bound to y, and then y was unified with x: the call succeeded and
\* bound nothing.
C34_Witness ==
    /\ call.n = 2
    /\ call.ok
    /\ call.left.k = "Variable"
    /\ call.right.k = "Variable"
    /\ call.left # call.right
    /\ call.right.id \in DOMAIN call.before
    /\ call.before[call.right.id] = call.left
    /\ bindings = call.before

\* C35: unify is symmetric in its two terms: on every substitution earlier
\* unify calls have left, unify(a, b) returns true iff unify(b, a) does.
C35_UnifySymmetric ==
    \A a \in Terms, b \in Terms :
        unify(a, b, bindings).ok = unify(b, a, bindings).ok

\* A variable is bound to an atom and the other variable is unbound: the
\* substitution of the bound-against-unbound case.
C35_Witness ==
    /\ call.n = 1
    /\ call.ok
    /\ DOMAIN bindings = {1}
    /\ bindings[1] = Atom(1)
    /\ unify(Variable(1), Atom(1), bindings).ok
    /\ unify(Variable(2), Variable(1), bindings).ok

-----------------------------------------------------------------------------
(* Further claims about streams, under SpecLogic.                          *)

RECURSIVE OfThree(_)
\* g is built from Unify, Disj2 and Conj2 goals only.
OfThree(g) ==
    CASE g.g = "Equals" -> TRUE
      [] g.g \in {"Disj2", "Conj2"} -> OfThree(g.left) /\ OfThree(g.right)
      [] OTHER -> FALSE

\* Some pull on stream h has returned nothing.
Ended(h) == streams[h] # NoStream /\ pulls[h] > Len(yielded[h])

\* A stream that has ended has nothing for the next pulls either.
StaysEnded ==
    \A h \in Handles :
        OfThree(goal) /\ Ended(h) =>
            /\ ~next(streams[h]).item.some
            /\ Take(streams[h], 3) = << >>

\* A pull on a stream that has ended yields nothing.
PullsNothing ==
    \A h \in Handles :
        OfThree(goal) /\ Ended(h) /\ pulls'[h] = pulls[h] + 1 =>
            /\ yielded'[h] = yielded[h]
            /\ ~last'.item.some

\* C36: every stream built from Unify, Disj2 and Conj2 goals stays
\* exhausted: once a pull returns nothing, every later pull on the stream
\* returns nothing, for any nesting of the three goal kinds.
C36_StaysExhausted == []StaysEnded /\ [][PullsNothing]_vars

\* A nested goal has yielded two answers and then nothing, twice.
C36_Witness ==
    \E h \in Handles :
        /\ OfThree(goal)
        /\ goal.g \in {"Disj2", "Conj2"}
        /\ goal.left.g \in {"Disj2", "Conj2"}
        /\ Len(yielded[h]) = 2
        /\ pulls[h] = 4
        /\ LastOn(h)
        /\ ~last.item.some

-----------------------------------------------------------------------------
(* Further claims about the code generator and main, under SpecVM.         *)

\* conj { var (q) { q == 'olive }, r == 'olive }
AtomAfterBlock ==
    AstProgram(<<AstConj(<<AstVar(<<AstVariable("q")>>, Tick("q", "olive")),
                           Tick("r", "olive")>>)>>)

\* The Atom instructions of the program eval has compiled.
AtomsOf(code) ==
    LET refs == References(code, 1)
    IN  {refs[i].arg : i \in {j \in 1..Len(refs) : refs[j].op = "Atom"}}

\* C37: the identity of an atom follows its name: any two occurrences of one
\* atom name in one Program compile to Atom instructions with the same id,
\* also when one of them stands in a var block that has ended before the
\* other.
C37_AtomIdFollowsName ==
    [][evals' = evals + 1 /\ status'.state = "running"
           /\ source'.ast.kids # << >> =>
          \A a \in AtomsOf(callstack'[1].instructions) :
              \A b \in AtomsOf(callstack'[1].instructions) :
                  interned'[a] = interned'[b] => a = b]_vars

\* conj { var (q) { q == 'olive }, r == 'olive } has been compiled.
C37_Witness ==
    /\ source.ast = AtomAfterBlock
    /\ status.state = "running"
    /\ trace = << >>
    /\ callstack[1].instructions[2].op = "Atom"
    /\ callstack[1].instructions[5].op = "Atom"
    /\ interned[callstack[1].instructions[2].arg] = "olive"
    /\ interned[callstack[1].instructions[5].arg] = "olive"

\* The same when no var block stands in the program.
C37_SameIdInOneScope ==
    [][evals' = evals + 1 /\ status'.state = "running"
           /\ source'.ast.kids # << >>
           /\ DeclaredIn(source'.ast) = {} =>
          \A a \in AtomsOf(callstack'[1].instructions) :
              \A b \in AtomsOf(callstack'[1].instructions) :
                  interned'[a] = interned'[b] => a = b]_vars

\* var (q) { var (r) { first() } }
FailsInside ==
    AstProgram(<<AstVar(<<AstVariable("q")>>,
                        AstVar(<<AstVariable("r")>>, AstFnCall("first", << >>, 20)))>>)

C38_BalancedWhenOk ==
    [][evals' = evals + 1 /\ status'.state = "running" =>
          /\ Len(ctx') = Len(ctx)
          /\ SubSeq(ctx', 1, Len(ctx) - 1) = SubSeq(ctx, 1, Len(ctx) - 1)]_vars

\* let z = solve('oil == 'oil)
LetStream ==
    AstProgram(<<AstLetBinding("z", Solved(AstEquals(AstAtom("oil"), AstAtom("oil"))))>>)

\* eval starts on empty stacks with the one frame of the program it has
\* compiled, and keeps the environment and the interned names.
EvalStartsClean ==
    evals' = evals + 1 =>
        /\ stack' = << >>
        /\ trace' = << >>
        /\ env' = env
        /\ \A id \in DOMAIN interned : id \in DOMAIN interned' /\ interned'[id] = interned[id]
        /\ \A name \in {"x", "z"} :
              Lookup(ctx, name).some => Lookup(ctx', name) = Lookup(ctx, name)
        /\ status'.state \in {"running", "syntax"}
        /\ status'.state = "syntax" => callstack' = << >>
        /\ status'.state = "running" =>
              callstack' =
                  <<Callable("Function", << >>,
                             generate(source'.ast,
                                      GenState(ctx, next_id, interned, << >>)).instr
                                 \o source'.tail, 0)>>

\* What run has dispatched since eval began: the first instruction is
\* instruction 0 of the program of this eval on an empty stack, and the
\* bottom frame is always that program.
OwnProgramOnly ==
    trace # << >> =>
        /\ trace[1].depth = 1
        /\ trace[1].ip = 0
        /\ trace[1].stack = << >>
        /\ \A i \in 1..Len(trace) :
              /\ trace[i].depth >= 1
              /\ trace[i].depth = 1 =>
                    trace[i].frame.instructions = trace[1].frame.instructions
              /\ source.print => trace[i].depth = 1

\* A reference to a let-binding made before finds its value.
BindingFound ==
    /\ source.ast = AstProgram(<<AstBindingRef("x")>>)
    /\ After("GetEnv")
    /\ Prev.frame.instructions[1].arg \in DOMAIN Prev.env
    => /\ status.state = "running"
       /\ stack = <<Prev.env[Prev.frame.instructions[1].arg]>>
       /\ Top(stack).type = "Table"

\* C39: across the evals on one VirtualMachine each eval starts with an
\* empty value stack and an empty call stack, so that after an eval that
\* ended with a RuntimeError the next eval dispatches only instructions of
\* its own program, while the let-bindings and the interned names of the
\* earlier evals remain.
C39_EvalStartsClean ==
    /\ [](OwnProgramOnly /\ BindingFound)
    /\ [][EvalStartsClean]_vars

\* The eval of z ended with the RuntimeError of an undefined variable, and
\* the next eval, of let z = solve('oil == 'oil), starts with the id z got
\* then.
C39_Witness ==
    /\ evals = 2
    /\ source.ast = LetStream
    /\ status.state = "running"
    /\ trace = << >>
    /\ env = << >>
    /\ interned[1] = "z"
    /\ next_id = 2
    /\ stack = << >>
    /\ Len(callstack) = 1
    /\ callstack[1].instructions[1] = OpVariable(1)

====
